---- MODULE Spec2Model ----
(***************************************************************************)
(* Position / StateInfo engine of Fairy-Stockfish-X (src/src/position.cpp) *)
(* as a state machine: set(), do_move(), undo_move() on a Position whose   *)
(* state records form a backward linked chain, the Zobrist keys kept       *)
(* incrementally and recomputed by set_state(), attackers_to(), legal(),   *)
(* gives_check(), see_ge(), has_game_cycle() and is_optional_game_end().   *)
(*                                                                         *)
(* Conventions.  A Bitboard is a set of squares, XOR on bitboards is the   *)
(* symmetric difference.  A Key is a set of Zobrist atoms <<table, index,  *)
(* index>>; the tables of Position::init() hold independent random 64-bit  *)
(* words, so XOR of keys is the symmetric difference of atom sets and two  *)
(* keys are equal iff the same atoms were XOR-ed in an odd number of times.*)
(* A Piece is <<colour, piece type>>.  A Square is rank * FILE_NB + file.  *)
(***************************************************************************)
EXTENDS Integers, Sequences, FiniteSets, TLC

VARIABLES
    var,                \* const Variant* var: the rule configuration
    board,              \* Piece board[SQUARE_NB]
    byTypeBB,           \* Bitboard byTypeBB[PIECE_TYPE_NB], ALL_PIECES included
    byColorBB,          \* Bitboard byColorBB[COLOR_NB]
    pieceCount,         \* int pieceCount[PIECE_NB]
    pieceCountInHand,   \* int pieceCountInHand[COLOR_NB][PIECE_TYPE_NB]
    pieceCountInPrison, \* int pieceCountInPrison[COLOR_NB][PIECE_TYPE_NB]
    promotedPieces,     \* Bitboard promotedPieces
    committedGates,     \* PieceType committedGates[COLOR_NB][FILE_NB]
    castlingRightsMask, \* int castlingRightsMask[SQUARE_NB]
    castlingRookSquare, \* Square castlingRookSquare[CASTLING_RIGHT_NB]
    castlingPath,       \* Bitboard castlingPath[CASTLING_RIGHT_NB]
    pawnCannotCheckZone,\* Bitboard pawnCannotCheckZone[COLOR_NB]
    sideToMove,         \* Color sideToMove
    gamePly,            \* int gamePly
    st,                 \* the chain of StateInfo records, st[Len(st)] is *st
    made,               \* the caller's stack of moves made and not yet unmade
    cuckoo,             \* Key cuckoo[]: the slots Position::init() has touched
    cuckooMove,         \* Move cuckooMove[]
    initLoop            \* the locals of the loops of Position::init()

vars == <<var, board, byTypeBB, byColorBB, pieceCount, pieceCountInHand,
          pieceCountInPrison, promotedPieces, committedGates, castlingRightsMask,
          castlingRookSquare, castlingPath, pawnCannotCheckZone, sideToMove,
          gamePly, st, made, cuckoo, cuckooMove, initLoop>>

\* ----------------------------------------------------------------- bounds
\* the deepest nest of do_move calls the caller makes
MaxPly == 3
\* the longest line of reversible moves played when probing for repetitions
MaxCyclePly == 8
\* the moves played from a position of exchanges before its captures are valued
MaxSeePly == 2
\* the deepest nest of do_move calls made from the positions of standard chess
MaxChessPly == 2
\* the moves played in the variants where a capture blasts the squares around it
MaxBlastPly == 3

\* ------------------------------------------------------ types and squares
FILE_NB == 8
SQUARE_NB == 64
SQ_NONE == 64
Colors == {"WHITE", "BLACK"}
PieceTypes == {"PAWN", "KNIGHT", "BISHOP", "ROOK", "QUEEN", "FERS", "COMMONER", "KING"}
NO_PIECE == <<"NONE", "NO_PIECE_TYPE">>
Squares == 0 .. (SQUARE_NB - 1)

make_piece(c, pt) == <<c, pt>>
color_of(pc) == pc[1]
type_of(pc) == pc[2]
Flip(c) == IF c = "WHITE" THEN "BLACK" ELSE "WHITE"
FlipPiece(pc) == <<Flip(pc[1]), pc[2]>>
Pieces == {make_piece(c, pt) : c \in Colors, pt \in PieceTypes \cup {"ALL_PIECES"}}

file_of(s) == s % FILE_NB
rank_of(s) == s \div FILE_NB
make_square(f, r) == r * FILE_NB + f
is_ok(s) == s >= 0 /\ s < SQUARE_NB
NORTH == FILE_NB
pawn_push(c) == IF c = "WHITE" THEN NORTH ELSE 0 - NORTH
Xor(a, b) == (a \ b) \cup (b \ a)
more_than_one(b) == Cardinality(b) > 1
Min(a, b) == IF a < b THEN a ELSE b
Max(a, b) == IF a < b THEN b ELSE a
Clamp(x, lo, hi) == IF x < lo THEN lo ELSE IF x > hi THEN hi ELSE x
Abs(x) == IF x < 0 THEN 0 - x ELSE x

\* ------------------------------------------- bitboard.h: attack geometry
Step(s, df, dr) ==
    IF    file_of(s) + df >= 0 /\ file_of(s) + df < FILE_NB
       /\ rank_of(s) + dr >= 0 /\ rank_of(s) + dr < SQUARE_NB \div FILE_NB
    THEN {make_square(file_of(s) + df, rank_of(s) + dr)}
    ELSE {}

Orthogonals == {<<1, 0>>, <<0 - 1, 0>>, <<0, 1>>, <<0, 0 - 1>>}
Diagonals == {<<1, 1>>, <<1, 0 - 1>>, <<0 - 1, 1>>, <<0 - 1, 0 - 1>>}
KnightSteps == {<<1, 2>>, <<2, 1>>, <<2, 0 - 1>>, <<1, 0 - 2>>,
                <<0 - 1, 0 - 2>>, <<0 - 2, 0 - 1>>, <<0 - 2, 1>>, <<0 - 1, 2>>}

LeaperSteps(pt) ==
    CASE pt = "KNIGHT" -> KnightSteps
      [] pt = "KING"   -> Orthogonals \cup Diagonals
      [] pt = "COMMONER" -> Orthogonals \cup Diagonals
      [] pt = "FERS"   -> Diagonals
      [] OTHER         -> {}

RiderDirs(pt) ==
    CASE pt = "BISHOP" -> Diagonals
      [] pt = "ROOK"   -> Orthogonals
      [] pt = "QUEEN"  -> Orthogonals \cup Diagonals
      [] OTHER         -> {}

RECURSIVE Slide(_, _, _, _)
Slide(s, df, dr, occ) ==
    LET n == Step(s, df, dr)
    IN  IF n = {} THEN {}
        ELSE IF n \subseteq occ THEN n
        ELSE n \cup Slide(CHOOSE t \in n : TRUE, df, dr, occ)

pawn_attacks_bb(c, s) ==
    IF c = "WHITE" THEN Step(s, 1, 1) \cup Step(s, 0 - 1, 1)
    ELSE Step(s, 1, 0 - 1) \cup Step(s, 0 - 1, 0 - 1)

LeaperAttacks(c, pt, s) ==
    IF pt = "PAWN" THEN pawn_attacks_bb(c, s)
    ELSE UNION {Step(s, d[1], d[2]) : d \in LeaperSteps(pt)}

attacks_bb(c, pt, s, occ) ==
    LeaperAttacks(c, pt, s) \cup UNION {Slide(s, d[1], d[2], occ) : d \in RiderDirs(pt)}

\* PseudoAttacks[c][pt][s]: the attacks on an empty board
PseudoAttacks(c, pt, s) == attacks_bb(c, pt, s, {})

\* between_bb(s1, s2): the squares strictly between two aligned squares, and
\* s2 itself (s2 alone when the squares are not aligned)
between_bb(s1, s2) ==
    LET ds == {d \in Orthogonals \cup Diagonals : s2 \in Slide(s1, d[1], d[2], {})}
    IN  IF ds = {} THEN {s2}
        ELSE LET d == CHOOSE x \in ds : TRUE IN Slide(s1, d[1], d[2], {s2})

rank_bb(r) == {s \in Squares : rank_of(s) = r}
file_bb(f) == {s \in Squares : file_of(s) = f}
Lsb(b) == CHOOSE s \in b : \A t \in b : s <= t
Msb(b) == CHOOSE s \in b : \A t \in b : s >= t

\* ------------------------------------------ position.h: Position accessors
\* A position value p is the record of the Position object's fields.
ThisSt(p) == p.st[Len(p.st)]
pieces(p) == p.byTypeBB["ALL_PIECES"]
piecesC(p, c) == p.byColorBB[c]
piecesT(p, pts) == UNION {p.byTypeBB[pt] : pt \in pts}
piecesCT(p, c, pts) == p.byColorBB[c] \cap piecesT(p, pts)
piece_on(p, s) == p.board[s]
empty(p, s) == p.board[s] = NO_PIECE
count(p, c, pt) == p.pieceCount[make_piece(c, pt)]
square(p, c, pt) == Lsb(piecesCT(p, c, {pt}))
board_bb(p) == {s \in Squares : file_of(s) <= p.var.maxFile /\ rank_of(s) <= p.var.maxRank}
relative_rank(p, c, r) == IF c = "WHITE" THEN r ELSE p.var.maxRank - r
promotion_zone(p, c) == rank_bb(relative_rank(p, c, p.var.maxRank))
is_promoted(p, s) == s \in p.promotedPieces
count_in_hand(p, c, pt) == p.pieceCountInHand[c][pt]
count_in_prison(p, c, pt) == p.pieceCountInPrison[c][pt]
count_with_hand(p, c, pt) == count(p, c, pt) + count_in_hand(p, c, pt)
can_castle(p, cr) == ThisSt(p).castlingRights \cap cr # {}
\* captures leave the board for the capturer's hand or prison
captures_to_hand(p) == p.var.captureType # "MOVE_OUT"
gating(p) == p.var.gating
gates(p, c) == ThisSt(p).gatesBB[c]
\* a gating move carries the piece type taken from the hand and its square
is_gating(m) == "gt" \in DOMAIN m
is_pass(m) == m.type = "SPECIAL" /\ m.from = m.to
walling(p) == p.var.wallingRule # "NO_WALLING"
gating_type(m) == m.gt
gating_square(m) == m.gsq

\* ------------------------------------ position.h: Position piece primitives
put_piece(p, pc, s, isPromoted) ==
    [p EXCEPT !.board[s] = pc,
              !.byTypeBB[type_of(pc)] = @ \cup {s},
              !.byTypeBB["ALL_PIECES"] = @ \cup {s},
              !.byColorBB[color_of(pc)] = @ \cup {s},
              !.pieceCount[pc] = @ + 1,
              !.pieceCount[make_piece(color_of(pc), "ALL_PIECES")] = @ + 1,
              !.promotedPieces = IF isPromoted THEN @ \cup {s} ELSE @]

\* remove_piece leaves board[s] as it is: the callers overwrite or clear it
remove_piece(p, s) ==
    LET pc == p.board[s]
    IN  [p EXCEPT !.byTypeBB["ALL_PIECES"] = Xor(@, {s}),
                  !.byTypeBB[type_of(pc)] = Xor(@, {s}),
                  !.byColorBB[color_of(pc)] = Xor(@, {s}),
                  !.pieceCount[pc] = @ - 1,
                  !.pieceCount[make_piece(color_of(pc), "ALL_PIECES")] = @ - 1,
                  !.promotedPieces = @ \ {s}]

clear_board(p, s) == [p EXCEPT !.board[s] = NO_PIECE]

move_piece(p, from, to) ==
    LET pc == p.board[from]
        fromTo == {from, to}
    IN  [p EXCEPT !.byTypeBB["ALL_PIECES"] = Xor(@, fromTo),
                  !.byTypeBB[type_of(pc)] = Xor(@, fromTo),
                  !.byColorBB[color_of(pc)] = Xor(@, fromTo),
                  !.board = [[@ EXCEPT ![from] = NO_PIECE] EXCEPT ![to] = pc],
                  !.promotedPieces = IF from \in @ THEN (@ \ {from}) \cup {to} ELSE @]

add_to_hand(p, pc) ==
    [p EXCEPT !.pieceCountInHand[color_of(pc)][type_of(pc)] = @ + 1,
              !.pieceCountInHand[color_of(pc)]["ALL_PIECES"] = @ + 1]

remove_from_hand(p, pc) ==
    [p EXCEPT !.pieceCountInHand[color_of(pc)][type_of(pc)] = @ - 1,
              !.pieceCountInHand[color_of(pc)]["ALL_PIECES"] = @ - 1]

\* the prison of colour c holds the pieces of colour ~c that c has captured
add_to_prison(p, pc) ==
    [p EXCEPT !.pieceCountInPrison[Flip(color_of(pc))][type_of(pc)] = @ + 1,
              !.pieceCountInPrison[Flip(color_of(pc))]["ALL_PIECES"] = @ + 1]

remove_from_prison(p, pc) ==
    [p EXCEPT !.pieceCountInPrison[Flip(color_of(pc))][type_of(pc)] = @ - 1,
              !.pieceCountInPrison[Flip(color_of(pc))]["ALL_PIECES"] = @ - 1]

SetSt(p, si) == [p EXCEPT !.st[Len(p.st)] = si]

\* ------------------------------------------------ types.h: piece values
PieceValueMg(pt) ==
    CASE pt = "PAWN"   -> 126
      [] pt = "KNIGHT" -> 781
      [] pt = "BISHOP" -> 825
      [] pt = "ROOK"   -> 1276
      [] pt = "QUEEN"  -> 2538
      [] pt = "FERS"   -> 420
      [] pt = "COMMONER" -> 700
      [] OTHER         -> 0

\* ------------------------------------------------------- Zobrist tables
\* Zobrist::psq[NO_PIECE][s] is zero: walls contribute Zobrist::wall[s] only
ZPsq(pc, s) == IF pc = NO_PIECE THEN {} ELSE {<<"psq", pc, s>>}
ZWall(s) == {<<"wall", s, 0>>}
ZEnpassant(f) == {<<"enpassant", f, 0>>}
ZCastling(cr) == {<<"castling", cr, 0>>}
ZSide == {<<"side", 0, 0>>}
ZInHand(pc, n) == {<<"inHand", pc, n>>}
ZChecks(c, n) == {<<"checks", c, n>>}
ZNoPawns == {<<"noPawns", 0, 0>>}
MAX_ZOBRIST_POINTS == 512
ZPoints(c, n) == {<<"points", c, n>>}

RECURSIVE XorAll(_)
XorAll(S) ==
    IF S = {} THEN {}
    ELSE LET k == CHOOSE x \in S : TRUE IN Xor(k, XorAll(S \ {k}))

\* the XOR of Zobrist::enpassant[file_of(s)] over the squares of a bitboard
RECURSIVE EpKey(_)
EpKey(b) ==
    IF b = {} THEN {}
    ELSE LET s == Lsb(b) IN Xor(ZEnpassant(file_of(s)), EpKey(b \ {s}))

\* ---------------------------------------------------- castling rights
KING_SIDE == {"WHITE_OO", "BLACK_OO"}
QUEEN_SIDE == {"WHITE_OOO", "BLACK_OOO"}
ColorRights(c) == IF c = "WHITE" THEN {"WHITE_OO", "WHITE_OOO"} ELSE {"BLACK_OO", "BLACK_OOO"}
AnyCastling == KING_SIDE \cup QUEEN_SIDE
castling_rank(p, c) == relative_rank(p, c, 0)

\* ------------------------------------------------------- attackers_to
\* the general loop over piece_types() of attackers_to()
attackers_general(p, s, occupied, c) ==
    UNION {attacks_bb(Flip(c), pt, s, occupied) \cap piecesCT(p, c, {pt}) :
             pt \in p.var.pieceTypes}

\* the fastAttacks path of attackers_to()
attackers_fast(p, s, occupied, c) ==
         ((pawn_attacks_bb(Flip(c), s) \cap piecesCT(p, c, {"PAWN"})) \ p.pawnCannotCheckZone[c])
    \cup (attacks_bb(c, "KNIGHT", s, {}) \cap piecesCT(p, c, {"KNIGHT"}))
    \cup (attacks_bb(c, "ROOK", s, occupied) \cap piecesCT(p, c, {"ROOK", "QUEEN"}))
    \cup (attacks_bb(c, "BISHOP", s, occupied) \cap piecesCT(p, c, {"BISHOP", "QUEEN"}))
    \cup (attacks_bb(c, "KING", s, {}) \cap piecesCT(p, c, {"KING"}))

\* the fastAttacks2 path of attackers_to()
attackers_fast2(p, s, occupied, c) ==
         (pawn_attacks_bb(Flip(c), s) \cap piecesCT(p, c, {"PAWN"}))
    \cup (attacks_bb(c, "KNIGHT", s, {}) \cap piecesCT(p, c, {"KNIGHT"}))
    \cup (attacks_bb(c, "ROOK", s, occupied) \cap piecesCT(p, c, {"ROOK", "QUEEN"}))
    \cup (attacks_bb(c, "BISHOP", s, occupied) \cap piecesCT(p, c, {"BISHOP", "QUEEN"}))
    \cup (attacks_bb(c, "KING", s, {}) \cap piecesCT(p, c, {"KING"}))
    \cup (attacks_bb(c, "FERS", s, {}) \cap piecesCT(p, c, {"FERS"}))

attackers_to(p, s, occupied, c) ==
    IF p.var.fastAttacks THEN attackers_fast(p, s, occupied, c)
    ELSE IF p.var.fastAttacks2 THEN attackers_fast2(p, s, occupied, c)
    ELSE attackers_general(p, s, occupied, c)

attackers_to_both(p, s, occupied) ==
    attackers_to(p, s, occupied, "WHITE") \cup attackers_to(p, s, occupied, "BLACK")

\* ----------------------------------------------------- slider_blockers
\* the snipers of colour c: sliders that would attack s with the board emptied
\* and do not attack it now
Snipers(p, sliders, s, c) ==
    IF p.var.fastAttacks
    THEN (   (attacks_bb(c, "ROOK", s, {}) \cap piecesCT(p, c, {"QUEEN", "ROOK"}))
          \cup (attacks_bb(c, "BISHOP", s, {}) \cap piecesCT(p, c, {"QUEEN", "BISHOP"})))
         \cap sliders
    ELSE UNION {(sliders \cap (PseudoAttacks(Flip(c), pt, s) \ LeaperAttacks(Flip(c), pt, s))
                         \cap piecesCT(p, c, {pt}))
                  \ attacks_bb(Flip(c), pt, s, pieces(p)) : pt \in p.var.pieceTypes}

\* <<blockers, pinners>> of slider_blockers(sliders, s, pinners, c)
slider_blockers(p, sliders, s, c) ==
    IF s = SQ_NONE \/ sliders = {} THEN <<{}, {}>>
    ELSE LET snipers == Snipers(p, sliders, s, c)
             occupancy == Xor(pieces(p), snipers)
             B(sn) == between_bb(s, sn) \cap occupancy
             good == {sn \in snipers : B(sn) # {} /\ ~more_than_one(B(sn))}
         IN  <<UNION {B(sn) : sn \in good},
               {sn \in good : B(sn) \cap piecesC(p, color_of(piece_on(p, s))) # {}}>>

KingSq(p, c) == IF count(p, c, "KING") > 0 THEN square(p, c, "KING") ELSE SQ_NONE

\* set_check_info(): si->blockersForKing[c], si->pinners[c], si->checkSquares[pt]
blockers_for_king(p, c) == slider_blockers(p, piecesC(p, Flip(c)), KingSq(p, c), Flip(c))[1]
pinners(p, c) == slider_blockers(p, piecesC(p, c), KingSq(p, Flip(c)), c)[2]
check_squares(p, pt) ==
    IF KingSq(p, Flip(p.sideToMove)) = SQ_NONE THEN {}
    ELSE attacks_bb(Flip(p.sideToMove), pt, KingSq(p, Flip(p.sideToMove)), pieces(p))

\* ------------------------------------------------------------ set_state
\* the keys and incrementally kept data of the position, from scratch
MaterialKeyOf(p) ==
    UNION {{<<"psq", make_piece(c, pt), cnt>> : cnt \in 0 .. (p.pieceCount[make_piece(c, pt)] - 1)} :
             c \in Colors, pt \in PieceTypes}

set_state(p) ==
    LET si == ThisSt(p)
        us == p.sideToMove
        occ == pieces(p)
        pcs == [c \in Colors |-> {make_piece(c, pt) : pt \in PieceTypes}]
    IN  [si EXCEPT
          !.key = XorAll(  {ZPsq(piece_on(p, s), s) : s \in occ}
                      \cup {ZWall(s) : s \in {t \in occ : piece_on(p, t) = NO_PIECE}}
                      \cup {EpKey(si.epSquares)}
                      \cup (IF us = "BLACK" THEN {ZSide} ELSE {})
                      \cup {ZCastling(si.castlingRights)}
                      \cup (IF p.var.pieceDrops \/ p.var.seirawanGating
                            THEN {ZInHand(pc, Clamp(p.pieceCountInHand[color_of(pc)][type_of(pc)],
                                                    0, SQUARE_NB - 1)) :
                                     pc \in pcs["WHITE"] \cup pcs["BLACK"]}
                            ELSE {})
                      \cup (IF p.var.checkCounting
                            THEN {ZChecks(c, si.checksRemaining[c]) : c \in Colors}
                            ELSE {})
                      \cup (IF p.var.pointsCounting
                            THEN {IF    si.pointsCount[c] >= 0
                                     /\ si.pointsCount[c] < MAX_ZOBRIST_POINTS
                                  THEN ZPoints(c, si.pointsCount[c])
                                  ELSE IF si.pointsCount[c] >= MAX_ZOBRIST_POINTS
                                  THEN ZPoints(c, MAX_ZOBRIST_POINTS - 1)
                                  ELSE {} : c \in Colors}
                            ELSE {})),
          !.materialKey = MaterialKeyOf(p),
          !.pawnKey = XorAll({ZNoPawns} \cup
                        {ZPsq(piece_on(p, s), s) : s \in {t \in occ : type_of(piece_on(p, t)) = "PAWN"}}),
          !.nonPawnMaterial = [c \in Colors |->
              LET cnt(pt) == Cardinality({s \in occ : piece_on(p, s) = make_piece(c, pt)})
              IN    cnt("KNIGHT") * PieceValueMg("KNIGHT") + cnt("BISHOP") * PieceValueMg("BISHOP")
                  + cnt("ROOK") * PieceValueMg("ROOK") + cnt("QUEEN") * PieceValueMg("QUEEN")
                  + cnt("FERS") * PieceValueMg("FERS")
                  + cnt("COMMONER") * PieceValueMg("COMMONER")],
          !.checkersBB = IF count(p, us, "KING") > 0
                         THEN attackers_to(p, square(p, us, "KING"), pieces(p), Flip(us))
                         ELSE {},
          !.move = "MOVE_NONE",
          !.removedGatingType = "NO_PIECE_TYPE",
          !.capturedGatingType = "NO_PIECE_TYPE"]

\* --------------------------------------------------- updatePawnCheckZone
updatePawnCheckZone(p) ==
    IF ~p.var.prisonPawnPromotion
    THEN [p EXCEPT !.pawnCannotCheckZone = [c \in Colors |-> {}]]
    ELSE [p EXCEPT !.pawnCannotCheckZone = [color \in Colors |->
            IF count(p, Flip(color), "KING") = 0 THEN {}
            ELSE IF \E pt \in p.var.promotionPieceTypes : count_in_prison(p, Flip(color), pt) > 0
                 THEN {}
                 ELSE rank_bb(relative_rank(p, color, p.var.maxRank - 1))]]

\* --------------------------------------------------- set_castling_right
set_castling_right(p, c, rfrom) ==
    LET kfrom == ThisSt(p).castlingKingSquare[c]
        side == IF kfrom < rfrom THEN KING_SIDE ELSE QUEEN_SIDE
        cr == CHOOSE r \in ColorRights(c) \cap side : TRUE
        kto == make_square(IF cr \in KING_SIDE THEN p.var.castlingKingsideFile
                           ELSE p.var.castlingQueensideFile, castling_rank(p, c))
        rto == IF cr \in KING_SIDE THEN kto - 1 ELSE kto + 1
    IN  [p EXCEPT !.st[Len(p.st)].castlingRights = @ \cup {cr},
                  !.castlingRightsMask[kfrom] = @ \cup {cr},
                  !.castlingRightsMask[rfrom] = @ \cup {cr},
                  !.castlingRookSquare[cr] = rfrom,
                  !.castlingPath[cr] = (between_bb(rfrom, rto) \cup between_bb(kfrom, kto))
                                       \ {kfrom, rfrom}]

\* ------------------------------------------------------------------ set
MOVE_NONE == [type |-> "NONE", from |-> SQ_NONE, to |-> SQ_NONE, pt |-> "NO_PIECE_TYPE"]
MOVE_NULL == [type |-> "NULL", from |-> SQ_NONE, to |-> SQ_NONE, pt |-> "NO_PIECE_TYPE"]

\* a StateInfo after std::memset(si, 0, sizeof(StateInfo))
ZeroSt ==
    [pawnKey |-> {}, materialKey |-> {}, nonPawnMaterial |-> [c \in Colors |-> 0],
     castlingRights |-> {}, castlingKingSquare |-> [c \in Colors |-> 0],
     rule50 |-> 0, pliesFromNull |-> 0, checksRemaining |-> [c \in Colors |-> 0],
     epSquares |-> {}, wallSquares |-> {}, gatesBB |-> [c \in Colors |-> {}],
     pointsCount |-> [c \in Colors |-> 0],
     key |-> {}, checkersBB |-> {}, capturedPiece |-> NO_PIECE, captureSquare |-> 0,
     capturedpromoted |-> FALSE, promotionPawn |-> NO_PIECE, move |-> MOVE_NONE,
     repetition |-> 0, removedGatingType |-> "NO_PIECE_TYPE",
     capturedGatingType |-> "NO_PIECE_TYPE",
     \* unpromotedBycatch holds its squares other than NO_PIECE; the variants here
     \* keep no unpromoted board, and demotedBycatch stays empty
     unpromotedBycatch |-> [s \in {} |-> NO_PIECE], promotedBycatch |-> {}]

\* a Position after std::memset(this, 0, sizeof(Position))
ZeroPos(v) ==
    [var |-> v,
     board |-> [s \in Squares |-> NO_PIECE],
     byTypeBB |-> [pt \in PieceTypes \cup {"ALL_PIECES"} |-> {}],
     byColorBB |-> [c \in Colors |-> {}],
     pieceCount |-> [pc \in Pieces |-> 0],
     pieceCountInHand |-> [c \in Colors |-> [pt \in PieceTypes \cup {"ALL_PIECES"} |-> 0]],
     pieceCountInPrison |-> [c \in Colors |-> [pt \in PieceTypes \cup {"ALL_PIECES"} |-> 0]],
     promotedPieces |-> {},
     committedGates |-> [c \in Colors |-> [f \in 0 .. (FILE_NB - 1) |-> "NO_PIECE_TYPE"]],
     castlingRightsMask |-> [s \in Squares |-> {}],
     castlingRookSquare |-> [cr \in AnyCastling |-> 0],
     castlingPath |-> [cr \in AnyCastling |-> {}],
     pawnCannotCheckZone |-> [c \in Colors |-> {}],
     sideToMove |-> "WHITE",
     gamePly |-> 0,
     st |-> <<ZeroSt>>]

\* apply f(p, x) for the elements x of a sequence, first to last
RECURSIVE FoldSeq(_, _, _)
FoldSeq(f(_, _), p, seq) ==
    IF seq = <<>> THEN p
    ELSE IF Len(seq) = 1 THEN f(p, seq[1])
    ELSE LET half == Len(seq) \div 2
             \* the first half is folded to a value before the second is begun
             done == {FoldSeq(f, q, SubSeq(seq, half + 1, Len(seq))) :
                         q \in {FoldSeq(f, p, SubSeq(seq, 1, half))}}
         IN  CHOOSE r \in done : TRUE

IsRookOf(p, c, s) == piece_on(p, s) = make_piece(c, "ROOK")

\* the rook search of a 'K' or 'Q' castling token
RECURSIVE ScanRook(_, _, _, _)
ScanRook(p, c, rsq, tok) ==
    IF tok = "K"
    THEN IF ~IsRookOf(p, c, rsq) /\ file_of(rsq) > 0 THEN ScanRook(p, c, rsq - 1, tok) ELSE rsq
    ELSE IF ~IsRookOf(p, c, rsq) /\ file_of(rsq) < p.var.maxFile THEN ScanRook(p, c, rsq + 1, tok)
         ELSE rsq

\* one token <<c, "K" or "Q">> of the castling field
SetCastlingToken(p, t) ==
    LET c == t[1]
        rsq == ScanRook(p, c, make_square(IF t[2] = "K" THEN p.var.castlingRookKingsideFile
                                          ELSE p.var.castlingRookQueensideFile,
                                          castling_rank(p, c)), t[2])
        castlingKings == piecesCT(p, c, {p.var.castlingKingPiece}) \cap rank_bb(castling_rank(p, c))
        cand == IF castlingKings # {} /\ ~more_than_one(castlingKings) THEN Lsb(castlingKings)
                ELSE make_square(p.var.castlingKingFile, castling_rank(p, c))
        ksq == IF ThisSt(p).castlingKingSquare[c] # SQ_NONE THEN ThisSt(p).castlingKingSquare[c]
               ELSE IF cand \in castlingKings THEN cand ELSE SQ_NONE
        q0 == [p EXCEPT !.st[Len(p.st)].castlingKingSquare[c] = ksq]
        \* gates are set on the occupied rook square and on the king square
        q == IF gating(p) /\ ~p.var.commitGates
             THEN [q0 EXCEPT !.st[Len(p.st)].gatesBB[c] =
                       @ \cup (IF rsq \in piecesC(p, c) THEN {rsq} ELSE {})
                         \cup (IF ksq # SQ_NONE THEN {ksq} ELSE {})]
             ELSE q0
        skip == /\ gating(p) /\ ~p.var.commitGates /\ ksq = SQ_NONE
                /\ (   ~p.var.seirawanGating \/ count_in_hand(p, c, "ALL_PIECES") > 0
                     \/ captures_to_hand(p))
    IN  IF ~p.var.castling THEN p
        ELSE IF skip THEN q
        ELSE IF ksq # SQ_NONE /\ IsRookOf(p, c, rsq) THEN set_castling_right(q, c, rsq)
        ELSE q

\* one square of the en passant field
SetEpToken(p, epSquare) ==
    LET us == p.sideToMove
        them == Flip(us)
        both == piecesC(p, "WHITE") \cup piecesC(p, "BLACK")
    IN  IF    epSquare \in p.var.enPassantRegion
           /\ (   ~p.var.fastAttacks
               \/ (   pawn_attacks_bb(them, epSquare) \cap piecesCT(p, us, {"PAWN"}) # {}
                   /\ (   epSquare + pawn_push(them) \in piecesCT(p, them, {"PAWN"})
                       \/ epSquare + 2 * pawn_push(them) \in piecesCT(p, them, {"PAWN"}))
                   /\ both \cap {epSquare, epSquare + pawn_push(us)} = {}))
        THEN [p EXCEPT !.st[Len(p.st)].epSquares = @ \cup {epSquare}]
        ELSE p

\* a piece token is <<piece, square>>, followed by "~" when the text marks it promoted
PutFenPiece(p, x) == put_piece(p, x[1], x[2], Len(x) = 3)
PutFenWall(p, sq) ==
    [p EXCEPT !.st[Len(p.st)].wallSquares = @ \cup {sq}, !.byTypeBB["ALL_PIECES"] = @ \cup {sq}]
CommitFenPiece(p, x) == [p EXCEPT !.committedGates[color_of(x[1])][x[2]] = type_of(x[1])]

\* Position::set() on the fields of a parsed FEN
set(v, fen) ==
    LET p1 == FoldSeq(PutFenPiece, ZeroPos(v), fen.pieces)
        p2 == FoldSeq(PutFenWall, p1, fen.walls)
        p2b == FoldSeq(CommitFenPiece, p2, fen.committed)
        p3 == FoldSeq(add_to_prison, FoldSeq(add_to_hand, p2b, fen.hand), fen.prison)
        p4 == [p3 EXCEPT !.sideToMove = fen.stm,
                         !.st[1].castlingKingSquare = [c \in Colors |-> SQ_NONE]]
        p5 == FoldSeq(SetCastlingToken, p4, fen.castling)
        p6 == FoldSeq(SetEpToken, p5, fen.ep)
        p7 == [p6 EXCEPT !.st[1].checksRemaining =
                             IF v.checkCounting THEN [c \in Colors |-> Max(fen.checks[c], 0)] ELSE @,
                         !.st[1].rule50 = fen.rule50,
                         !.st[1].pointsCount = IF v.pointsCounting THEN fen.points ELSE @,
                         !.gamePly = Max(2 * (fen.fullmove - 1), 0)
                                     + (IF fen.stm = "BLACK" THEN 1 ELSE 0)]
        p8 == updatePawnCheckZone(p7)
    IN  SetSt(p8, set_state(p8))

\* ------------------------------------------------------------------ fen
\* the place of a square in the piece placement field: ranks from the top, files from a
FenOrder(p, s) == (p.var.maxRank - rank_of(s)) * FILE_NB + file_of(s)

\* the squares of S in the order fen() writes them
RECURSIVE BoardScan(_, _)
BoardScan(p, S) ==
    IF S = {} THEN <<>>
    ELSE LET s == CHOOSE t \in S : \A u \in S : FenOrder(p, t) <= FenOrder(p, u)
         IN  <<s>> \o BoardScan(p, S \ {s})

\* n copies of x
Copies(n, x) == [i \in 1 .. n |-> x]

\* the concatenation of the sequences of a sequence
RECURSIVE Concat(_)
Concat(ss) == IF ss = <<>> THEN <<>> ELSE Head(ss) \o Concat(Tail(ss))

\* the piece types from KING down to PAWN
TypesDown == <<"KING", "COMMONER", "FERS", "QUEEN", "ROOK", "BISHOP", "KNIGHT", "PAWN">>

\* the integer division of C++, rounding toward zero
CDiv(a, b) == IF a < 0 THEN 0 - ((0 - a) \div b) ELSE a \div b

\* the piece letter of a square, with its "~" when the promoted marker is written
FenPieceToken(p, s, showPromoted) ==
    IF ((captures_to_hand(p) \/ showPromoted) /\ is_promoted(p, s))
    THEN <<piece_on(p, s), s, "~">>
    ELSE <<piece_on(p, s), s>>

\* the holdings between the brackets: the hands, White's first
FenHand(p) ==
    Concat([i \in 1 .. 16 |->
              LET c == IF i <= 8 THEN "WHITE" ELSE "BLACK"
                  pt == TypesDown[((i - 1) % 8) + 1]
              IN  Copies(p.pieceCountInHand[c][pt], make_piece(c, pt))])

\* the holdings after '#': the prisons, Black's first, each piece in its own colour
FenPrison(p) ==
    IF    p.var.captureType = "PRISON"
       /\ (count_in_prison(p, "WHITE", "ALL_PIECES") > 0 \/ count_in_prison(p, "BLACK", "ALL_PIECES") > 0)
    THEN Concat([i \in 1 .. 16 |->
              LET c == IF i <= 8 THEN "BLACK" ELSE "WHITE"
                  pt == TypesDown[((i - 1) % 8) + 1]
              IN  Copies(p.pieceCountInPrison[c][pt], make_piece(Flip(c), pt))])
    ELSE <<>>

\* the committed gates of a colour, a file at a time
FenCommitted(p, c) ==
    Concat([i \in 1 .. (p.var.maxFile + 1) |->
              IF p.committedGates[c][i - 1] # "NO_PIECE_TYPE"
              THEN << <<make_piece(c, p.committedGates[c][i - 1]), i - 1>> >>
              ELSE <<>>])

\* the letters of the castling field
FenCastling(p) ==
    Concat(<< IF ThisSt(p).castlingRights \cap ColorRights("WHITE") \cap KING_SIDE # {}
              THEN << <<"WHITE", "K">> >> ELSE <<>>,
              IF ThisSt(p).castlingRights \cap ColorRights("WHITE") \cap QUEEN_SIDE # {}
              THEN << <<"WHITE", "Q">> >> ELSE <<>>,
              IF ThisSt(p).castlingRights \cap ColorRights("BLACK") \cap KING_SIDE # {}
              THEN << <<"BLACK", "K">> >> ELSE <<>>,
              IF ThisSt(p).castlingRights \cap ColorRights("BLACK") \cap QUEEN_SIDE # {}
              THEN << <<"BLACK", "Q">> >> ELSE <<>> >>)

\* the en passant squares, lowest first
RECURSIVE FenEp(_)
FenEp(b) == IF b = {} THEN <<>> ELSE <<Lsb(b)>> \o FenEp(b \ {Lsb(b)})

\* fen() that writes a wall square as an empty square
fen_without_walls(p, showPromoted) ==
    LET holdings == (p.var.pieceDrops \/ p.var.seirawanGating) /\ ~p.var.commitGates
        onBoard == BoardScan(p, {s \in board_bb(p) : s \in pieces(p) /\ ~empty(p, s)})
    IN  [pieces |-> [i \in 1 .. Len(onBoard) |-> FenPieceToken(p, onBoard[i], showPromoted)],
         walls |-> <<>>,
         committed |-> IF p.var.commitGates
                       THEN FenCommitted(p, "BLACK") \o FenCommitted(p, "WHITE") ELSE <<>>,
         hand |-> IF holdings THEN FenHand(p) ELSE <<>>,
         prison |-> IF holdings THEN FenPrison(p) ELSE <<>>,
         stm |-> p.sideToMove,
         castling |-> FenCastling(p),
         ep |-> FenEp(ThisSt(p).epSquares),
         checks |-> IF p.var.checkCounting THEN ThisSt(p).checksRemaining
                    ELSE [c \in Colors |-> 0],
         rule50 |-> ThisSt(p).rule50,
         fullmove |-> 1 + CDiv(p.gamePly - (IF p.sideToMove = "BLACK" THEN 1 ELSE 0), 2),
         points |-> IF p.var.pointsCounting THEN ThisSt(p).pointsCount
                    ELSE [c \in Colors |-> 0]]

\* Position::fen(sfen = false, showPromoted): the fields of the text it writes
fen(p, showPromoted) ==
    LET holdings == (p.var.pieceDrops \/ p.var.seirawanGating) /\ ~p.var.commitGates
        onBoard == BoardScan(p, {s \in board_bb(p) : s \in pieces(p) /\ ~empty(p, s)})
    IN  [pieces |-> [i \in 1 .. Len(onBoard) |-> FenPieceToken(p, onBoard[i], showPromoted)],
         walls |-> BoardScan(p, {s \in board_bb(p) : s \in pieces(p) /\ empty(p, s)}),
         committed |-> IF p.var.commitGates
                       THEN FenCommitted(p, "BLACK") \o FenCommitted(p, "WHITE") ELSE <<>>,
         hand |-> IF holdings THEN FenHand(p) ELSE <<>>,
         prison |-> IF holdings THEN FenPrison(p) ELSE <<>>,
         stm |-> p.sideToMove,
         castling |-> FenCastling(p),
         ep |-> FenEp(ThisSt(p).epSquares),
         checks |-> IF p.var.checkCounting THEN ThisSt(p).checksRemaining
                    ELSE [c \in Colors |-> 0],
         rule50 |-> ThisSt(p).rule50,
         fullmove |-> 1 + CDiv(p.gamePly - (IF p.sideToMove = "BLACK" THEN 1 ELSE 0), 2),
         points |-> IF p.var.pointsCounting THEN ThisSt(p).pointsCount
                    ELSE [c \in Colors |-> 0]]

\* ------------------------------------------------------------- do_move
\* a Move is [type, from, to, pt]: pt is the promotion type of a PROMOTION
\* and the dropped piece type of a DROP
moved_piece(p, m) ==
    IF m.type = "DROP" THEN make_piece(p.sideToMove, m.pt) ELSE piece_on(p, m.from)

forward_file_bb(c, s) ==
    {t \in file_bb(file_of(s)) : IF c = "WHITE" THEN t > s ELSE t < s}

\* the closest enemy piece behind the en passant target square
capture_square(p, to) ==
    LET b == piecesC(p, Flip(p.sideToMove)) \cap forward_file_bb(Flip(p.sideToMove), to)
    IN  IF b = {} THEN to ELSE IF p.sideToMove = "WHITE" THEN Msb(b) ELSE Lsb(b)

captured_piece(p, m) ==
    IF m.type = "EN_PASSANT" THEN piece_on(p, capture_square(p, m.to)) ELSE piece_on(p, m.to)

\* PseudoMoves[0][c][pt][s]: the quiet moves on an empty board
PseudoMoves(c, pt, s) ==
    IF pt = "PAWN" THEN Step(s, 0, IF c = "WHITE" THEN 1 ELSE 0 - 1) ELSE PseudoAttacks(c, pt, s)

\* do_castling<Do>: the king on from "captures" the own rook on to
do_castling(p, Do, us, from, to) ==
    LET kingSide == to > from
        rfrom == to
        kto == make_square(IF kingSide THEN p.var.castlingKingsideFile
                           ELSE p.var.castlingQueensideFile, castling_rank(p, us))
        rto == IF kingSide THEN kto - 1 ELSE kto + 1
        kfromSq == IF Do THEN from ELSE kto
        rfromSq == IF Do THEN rfrom ELSE rto
        castlingKingPiece == piece_on(p, kfromSq)
        castlingRookPiece == piece_on(p, rfromSq)
        p1 == clear_board(clear_board(remove_piece(remove_piece(p, kfromSq), rfromSq),
                                      kfromSq), rfromSq)
        p2 == put_piece(p1, castlingKingPiece, IF Do THEN kto ELSE from, FALSE)
        p3 == put_piece(p2, castlingRookPiece, IF Do THEN rto ELSE rfrom, FALSE)
    IN  [p |-> p3, to |-> kto, rfrom |-> rfrom, rto |-> rto]

\* DoCapture where a capture leaves rule50 counting
DoCapture_keeps_rule50(x, m, us) ==
    LET p == x.p
        top == Len(p.st)
        captured == x.captured
        them == Flip(us)
        capsq == IF m.type = "EN_PASSANT" THEN capture_square(p, x.to) ELSE x.to
        capturedPromoted == is_promoted(p, capsq)
        p1 == [p EXCEPT
                 !.st[top].captureSquare = IF m.type = "EN_PASSANT" THEN capsq ELSE @,
                 !.st[top].pawnKey = IF type_of(captured) = "PAWN"
                                     THEN Xor(@, ZPsq(captured, capsq)) ELSE @,
                 !.st[top].nonPawnMaterial[them] =
                     IF type_of(captured) = "PAWN" THEN @ ELSE @ - PieceValueMg(type_of(captured))]
        p2 == remove_piece(p1, capsq)
        p3 == IF m.type = "EN_PASSANT" THEN clear_board(p2, capsq) ELSE p2
        pieceToHand == IF ~capturedPromoted THEN FlipPiece(captured)
                       ELSE make_piece(Flip(color_of(captured)), "PAWN")
        pieceToPrison == IF ~capturedPromoted THEN captured
                         ELSE make_piece(color_of(captured), "PAWN")
        p4 == CASE p.var.captureType = "HAND"   -> add_to_hand(p3, pieceToHand)
                [] p.var.captureType = "PRISON" -> add_to_prison(p3, pieceToPrison)
                [] OTHER -> p3
        moved == IF p.var.captureType = "HAND" THEN pieceToHand ELSE pieceToPrison
        newN == Clamp(IF p.var.captureType = "HAND"
                      THEN p4.pieceCountInHand[color_of(pieceToHand)][type_of(pieceToHand)]
                      ELSE p4.pieceCountInPrison[Flip(color_of(pieceToPrison))][type_of(pieceToPrison)],
                      0, SQUARE_NB - 1)
        oldN == Clamp(newN - 1, 0, SQUARE_NB - 1)
        k1 == IF p.var.captureType \in {"HAND", "PRISON"}
              THEN Xor(x.k, Xor(ZInHand(moved, oldN), ZInHand(moved, newN)))
              ELSE x.k
        k2 == Xor(k1, ZPsq(captured, capsq))
        p5 == [p4 EXCEPT
                 !.st[top].materialKey =
                     Xor(@, Xor(ZPsq(captured, p4.pieceCount[captured] + 1),
                                ZPsq(captured, p4.pieceCount[captured])))]
    IN  [x EXCEPT !.p = p5, !.k = k2]

\* the points a removed piece brings, by points_rule_captures()
AssignPoints(p, us, removed) ==
    LET pts == p.var.piecePoints[type_of(removed)]
        owner == CASE p.var.pointsRuleCaptures = "POINTS_US" -> us
                   [] p.var.pointsRuleCaptures = "POINTS_THEM" -> Flip(us)
                   [] p.var.pointsRuleCaptures = "POINTS_OWNER" -> color_of(removed)
                   [] p.var.pointsRuleCaptures = "POINTS_NON_OWNER" -> Flip(color_of(removed))
                   [] OTHER -> "NONE"
    IN  IF p.var.pointsCounting /\ owner # "NONE"
        THEN [p EXCEPT !.st[Len(p.st)].pointsCount[owner] = @ + pts]
        ELSE p

\* the capture block of do_move: x is [p, k, captured, to]
DoCapture(x, m, us) ==
    LET p == x.p
        top == Len(p.st)
        captured == x.captured
        them == Flip(us)
        capsq == IF m.type = "EN_PASSANT" THEN capture_square(p, x.to) ELSE x.to
        capturedPromoted == is_promoted(p, capsq)
        p1 == [p EXCEPT
                 !.st[top].captureSquare = IF m.type = "EN_PASSANT" THEN capsq ELSE @,
                 !.st[top].pawnKey = IF type_of(captured) = "PAWN"
                                     THEN Xor(@, ZPsq(captured, capsq)) ELSE @,
                 !.st[top].nonPawnMaterial[them] =
                     IF type_of(captured) = "PAWN" THEN @ ELSE @ - PieceValueMg(type_of(captured))]
        p2 == remove_piece(p1, capsq)
        p3 == IF m.type = "EN_PASSANT" THEN clear_board(p2, capsq) ELSE p2
        pieceToHand == IF ~capturedPromoted THEN FlipPiece(captured)
                       ELSE make_piece(Flip(color_of(captured)), "PAWN")
        pieceToPrison == IF ~capturedPromoted THEN captured
                         ELSE make_piece(color_of(captured), "PAWN")
        p4 == CASE p.var.captureType = "HAND"   -> add_to_hand(p3, pieceToHand)
                [] p.var.captureType = "PRISON" -> add_to_prison(p3, pieceToPrison)
                [] OTHER -> p3
        moved == IF p.var.captureType = "HAND" THEN pieceToHand ELSE pieceToPrison
        newN == Clamp(IF p.var.captureType = "HAND"
                      THEN p4.pieceCountInHand[color_of(pieceToHand)][type_of(pieceToHand)]
                      ELSE p4.pieceCountInPrison[Flip(color_of(pieceToPrison))][type_of(pieceToPrison)],
                      0, SQUARE_NB - 1)
        oldN == Clamp(newN - 1, 0, SQUARE_NB - 1)
        k1 == IF p.var.captureType \in {"HAND", "PRISON"}
              THEN Xor(x.k, Xor(ZInHand(moved, oldN), ZInHand(moved, newN)))
              ELSE x.k
        k2 == Xor(k1, ZPsq(captured, capsq))
        p5 == [p4 EXCEPT
                 !.st[top].materialKey =
                     Xor(@, Xor(ZPsq(captured, p4.pieceCount[captured] + 1),
                                ZPsq(captured, p4.pieceCount[captured]))),
                 !.st[top].rule50 = 0]
    IN  [x EXCEPT !.p = AssignPoints(p5, us, captured), !.k = k2]

\* DoMoveKey without the reset of rule50 by irreversible moves
DoMoveKey_keeps_rule50(x, m, us, pc) ==
    LET p == x.p
        newN == Clamp(p.pieceCountInHand[us][m.pt], 0, SQUARE_NB - 1)
        oldN == Clamp(newN - 1, 0, SQUARE_NB - 1)
    IN  IF m.type = "DROP"
        THEN [x EXCEPT !.k = Xor(@, Xor(ZPsq(pc, x.to), Xor(ZInHand(pc, oldN), ZInHand(pc, newN))))]
        ELSE [x EXCEPT !.k = Xor(@, Xor(ZPsq(pc, m.from), ZPsq(pc, x.to)))]

\* the hash key and rule50 update for the moved piece: x is [p, k, captured, to]
DoMoveKey(x, m, us, pc) ==
    LET p == x.p
        top == Len(p.st)
        newN == Clamp(p.pieceCountInHand[us][m.pt], 0, SQUARE_NB - 1)
        oldN == Clamp(newN - 1, 0, SQUARE_NB - 1)
    IN  IF m.type = "DROP"
        THEN [x EXCEPT !.k = Xor(@, Xor(ZPsq(pc, x.to), Xor(ZInHand(pc, oldN), ZInHand(pc, newN)))),
                       !.p.st[top].rule50 = 0]
        ELSE [x EXCEPT !.k = Xor(@, Xor(ZPsq(pc, m.from), ZPsq(pc, x.to))),
                       !.p.st[top].rule50 =
                           IF    m.type = "PROMOTION"
                              \/ (   type_of(pc) \in p.var.nMoveRuleTypes
                                  /\ m.from \notin PseudoMoves(us, type_of(pc), x.to))
                           THEN 0 ELSE @]

\* DoEpAndCastlingRights where the castling rights are left as they were
DoEpAndCastlingRights_keeps_rights(x, m, us) ==
    [x EXCEPT !.k = Xor(x.k, EpKey(ThisSt(x.p).epSquares)),
              !.p.st[Len(x.p.st)].epSquares = {}]

\* reset of the en passant squares and update of the castling rights
DoEpAndCastlingRights(x, m, us) ==
    LET p == x.p
        top == Len(p.st)
        si == ThisSt(p)
        k1 == Xor(x.k, EpKey(si.epSquares))
        mask == p.castlingRightsMask[m.from] \cup p.castlingRightsMask[x.to]
        cr1 == si.castlingRights \ mask
        cr2 == IF p.var.oppositeCastling /\ m.type = "CASTLING"
               THEN cr1 \ (ColorRights(Flip(us)) \cap (IF x.to > m.from THEN KING_SIDE ELSE QUEEN_SIDE))
               ELSE cr1
    IN  IF m.type # "DROP" /\ si.castlingRights # {} /\ mask # {}
        THEN [x EXCEPT !.k = Xor(k1, Xor(ZCastling(si.castlingRights), ZCastling(cr2))),
                       !.p.st[top].epSquares = {},
                       !.p.st[top].castlingRights = cr2]
        ELSE [x EXCEPT !.k = k1, !.p.st[top].epSquares = {}]

\* drop_piece() or move_piece() and the keys of a drop
\* set_castling_right for the rooks of a set, lowest square first
RECURSIVE SetRightsForRooks(_, _, _)
SetRightsForRooks(p, c, rooks) ==
    IF rooks = {} THEN p
    ELSE SetRightsForRooks(IF type_of(piece_on(p, Lsb(rooks))) = "ROOK"
                           THEN set_castling_right(p, c, Lsb(rooks)) ELSE p,
                           c, rooks \ {Lsb(rooks)})

\* the castling rights a dropped king or rook brings
DropCastlingRights(p, us, pc, to) ==
    LET top == Len(p.st)
        ksq == make_square(p.var.castlingKingFile, castling_rank(p, us))
        corners == piecesC(p, us) \cap rank_bb(castling_rank(p, us))
                   \cap (file_bb(0) \cup file_bb(p.var.maxFile))
    IN  IF ~(p.var.castlingDroppedPiece /\ rank_of(to) = castling_rank(p, us)) THEN p
        ELSE IF type_of(pc) = p.var.castlingKingPiece /\ file_of(to) = p.var.castlingKingFile
        THEN SetRightsForRooks([p EXCEPT !.st[top].castlingKingSquare[us] = to], us, corners)
        ELSE IF    type_of(pc) = "ROOK" /\ file_of(to) \in {0, p.var.maxFile}
                /\ piece_on(p, ksq) = make_piece(us, p.var.castlingKingPiece)
        THEN set_castling_right([p EXCEPT !.st[top].castlingKingSquare[us] = ksq], us, to)
        ELSE p

DoMovePiece(x, m, us, pc) ==
    LET p == x.p
        top == Len(p.st)
        d1 == remove_from_hand(put_piece(p, pc, x.to, FALSE), pc)
        d2 == DropCastlingRights(
                [d1 EXCEPT
                   !.st[top].materialKey = Xor(@, ZPsq(pc, d1.pieceCount[pc] - 1)),
                   !.st[top].nonPawnMaterial[us] =
                       IF type_of(pc) # "PAWN" THEN @ + PieceValueMg(type_of(pc)) ELSE @],
                us, pc, x.to)
    IN  IF m.type = "DROP" THEN [x EXCEPT !.p = d2]
        ELSE IF m.type # "CASTLING" THEN [x EXCEPT !.p = move_piece(p, m.from, x.to)]
        ELSE x

\* the special extra work for a moving pawn
\* PawnEpSquares that does not look at the en passant region
PawnEpSquares_any_region(p, m, us, to) ==
    LET them == Flip(us)
        step == Abs(to - m.from)
        passed(n) ==
            LET epsq == to - n * pawn_push(us)
            IN  IF    pawn_attacks_bb(us, epsq) \cap piecesCT(p, them, {"PAWN"}) # {}
                   /\ ~(walling(p) /\ gating_square(m) = epsq)
                THEN {epsq} ELSE {}
    IN  IF m.type = "DROP" \/ step \notin {2 * NORTH, 3 * NORTH} THEN {}
        ELSE passed(1) \cup (IF step = 3 * NORTH THEN passed(2) ELSE {})

\* the en passant squares that the step of a pawn to the square to sets: the
\* squares it passed over, inside the region, that an enemy pawn attacks (no
\* piece other than a pawn takes en passant in the variants here)
PawnEpSquares(p, m, us, to) ==
    LET them == Flip(us)
        step == Abs(to - m.from)
        passed(n) ==
            LET epsq == to - n * pawn_push(us)
            IN  IF    epsq \in p.var.enPassantRegion
                   /\ pawn_attacks_bb(us, epsq) \cap piecesCT(p, them, {"PAWN"}) # {}
                   /\ ~(walling(p) /\ gating_square(m) = epsq)
                THEN {epsq} ELSE {}
    IN  IF m.type = "DROP" \/ step \notin {2 * NORTH, 3 * NORTH} THEN {}
        ELSE passed(1) \cup (IF step = 3 * NORTH THEN passed(2) ELSE {})

DoPawn(x, m, us, pc) ==
    LET p == x.p
        top == Len(p.st)
        them == Flip(us)
        to == x.to
        promotion == make_piece(us, m.pt)
        q1 == put_piece(remove_piece([p EXCEPT !.st[top].promotionPawn = piece_on(p, to)], to),
                        promotion, to, TRUE)
        q2 == IF p.var.prisonPawnPromotion
              THEN remove_from_prison(add_to_prison(q1, piece_on(p, to)), promotion)
              ELSE q1
        q3 == [q2 EXCEPT
                 !.st[top].pawnKey = Xor(@, ZPsq(pc, to)),
                 !.st[top].materialKey = Xor(@, Xor(ZPsq(promotion, q2.pieceCount[promotion] - 1),
                                                    ZPsq(pc, q2.pieceCount[pc]))),
                 !.st[top].nonPawnMaterial[us] = @ + PieceValueMg(m.pt)]
        newEp == PawnEpSquares(p, m, us, to)
        \* one file key for each square: two squares of one file cancel
        y == IF m.type = "PROMOTION"
             THEN [x EXCEPT !.p = q3, !.k = Xor(@, Xor(ZPsq(pc, to), ZPsq(promotion, to)))]
             ELSE [x EXCEPT !.p.st[top].epSquares = @ \cup newEp,
                            !.k = Xor(@, EpKey(newEp))]
    IN  IF type_of(pc) # "PAWN" THEN x
        ELSE [y EXCEPT !.p.st[top].pawnKey =
                 Xor(@, Xor(IF m.type # "DROP" THEN ZPsq(pc, m.from) ELSE {}, ZPsq(pc, to)))]

\* the gating block of do_move: the piece leaves the hand for the gate square
DoGating(x, m, us) ==
    IF ~is_gating(m) THEN x
    ELSE LET gate == gating_square(m)
             gating_piece == make_piece(us, gating_type(m))
             top == Len(x.p.st)
             p1 == remove_from_hand(put_piece(x.p, gating_piece, gate, FALSE), gating_piece)
         IN  [x EXCEPT
                !.p = [p1 EXCEPT
                         !.st[top].gatesBB[us] = Xor(@, {gate}),
                         !.st[top].materialKey =
                             Xor(@, ZPsq(gating_piece, p1.pieceCount[gating_piece])),
                         !.st[top].nonPawnMaterial[us] = @ + PieceValueMg(gating_type(m))],
                !.k = Xor(@, ZPsq(gating_piece, gate))]

\* the removal of the gates a move uses up
DoRemoveGates(x, m, us) ==
    LET p == x.p
        top == Len(p.st)
        them == Flip(us)
        g0 == ThisSt(p).gatesBB
        g1 == IF m.type # "DROP" /\ m.from \in g0[us] THEN [g0 EXCEPT ![us] = Xor(@, {m.from})]
              ELSE g0
        g2 == IF m.type = "CASTLING" /\ m.to \in g1[us] THEN [g1 EXCEPT ![us] = Xor(@, {m.to})]
              ELSE g1
        g3 == IF x.to \in g2[them] THEN [g2 EXCEPT ![them] = Xor(@, {x.to})] ELSE g2
        g4 == IF    p.var.seirawanGating /\ count_in_hand(p, us, "ALL_PIECES") = 0
                 /\ ~captures_to_hand(p)
              THEN [g3 EXCEPT ![us] = {}] ELSE g3
    IN  IF gating(p) THEN [x EXCEPT !.p.st[top].gatesBB = g4] ELSE x

\* position.h: the committed (musketeer) gates
has_committed_piece(p, c, f) == p.committedGates[c][f] # "NO_PIECE_TYPE"
uncommit_piece(p, c, f) == [p EXCEPT !.committedGates[c][f] = "NO_PIECE_TYPE"]
commit_piece(p, pc, f) == [p EXCEPT !.committedGates[color_of(pc)][f] = type_of(pc)]
drop_committed_piece(p, c, f) ==
    uncommit_piece(put_piece(p, make_piece(c, p.committedGates[c][f]),
                             make_square(f, IF c = "WHITE" THEN 0 ELSE p.var.maxRank), FALSE), c, f)

\* the musketeer gating block of do_move
DoCommitGates(x, m) ==
    LET p == x.p
        top == Len(p.st)
        r == rank_of(m.from)
        f == file_of(m.from)
        c == IF r = 0 /\ has_committed_piece(p, "WHITE", f) THEN "WHITE"
             ELSE IF r = p.var.maxRank /\ has_committed_piece(p, "BLACK", f) THEN "BLACK"
             ELSE "NONE"
        g1 == IF c = "NONE" THEN p
              ELSE [drop_committed_piece(p, c, f) EXCEPT
                       !.st[top].removedGatingType = p.committedGates[c][f]]
        rt == rank_of(x.to)
        ft == file_of(x.to)
        cc == IF rt = 0 /\ color_of(x.captured) = "WHITE" THEN "WHITE"
              ELSE IF rt = p.var.maxRank /\ color_of(x.captured) = "BLACK" THEN "BLACK"
              ELSE "NONE"
        g2 == IF x.captured # NO_PIECE
              THEN IF cc = "NONE" THEN g1
                   ELSE [uncommit_piece(g1, cc, ft) EXCEPT
                            !.st[top].capturedGatingType = g1.committedGates[cc][ft]]
              ELSE [g1 EXCEPT !.st[top].removedGatingType = "NO_PIECE_TYPE"]
    IN  IF p.var.commitGates THEN [x EXCEPT !.p = g2] ELSE x

\* st->repetition: the ply distance to the previous occurrence of the key of
\* the last record of chain, negative if that occurrence is itself a repetition
RECURSIVE RepetitionWalk(_, _, _)
RepetitionWalk(chain, i, end) ==
    LET n == Len(chain)
    IN  IF i > end \/ n - i < 1 THEN 0
        ELSE IF chain[n - i].key = chain[n].key
             THEN (IF chain[n - i].repetition # 0 THEN 0 - i ELSE i)
        ELSE RepetitionWalk(chain, i + 2, end)

\* RepetitionWalk that never marks a repetition of a repetition as negative
RECURSIVE RepetitionWalk_unsigned(_, _, _)
RepetitionWalk_unsigned(chain, i, end) ==
    LET n == Len(chain)
    IN  IF i > end \/ n - i < 1 THEN 0
        ELSE IF chain[n - i].key = chain[n].key THEN i
        ELSE RepetitionWalk_unsigned(chain, i + 2, end)

RepetitionEnd(p) ==
    IF captures_to_hand(p) THEN ThisSt(p).pliesFromNull
    ELSE Min(ThisSt(p).rule50, ThisSt(p).pliesFromNull)

\* PointsBucket without the shared bucket for totals of 512 or more
PointsBucket_unclamped(c, n) ==
    IF n >= 0 THEN ZPoints(c, n) ELSE {}

\* CountCheck that counts a check against both sides
CountCheck_both(p, checksRemaining, givesCheck, us) ==
    IF p.var.checkCounting /\ givesCheck
    THEN [c \in Colors |-> checksRemaining[c] - 1]
    ELSE checksRemaining

\* --(st->checksRemaining[us]) of do_move
CountCheck(p, checksRemaining, givesCheck, us) ==
    IF p.var.checkCounting /\ givesCheck
    THEN [checksRemaining EXCEPT ![us] = @ - 1]
    ELSE checksRemaining

\* the key of one colour's points total, as do_move buckets it
PointsBucket(c, n) ==
    IF n >= 0 /\ n < MAX_ZOBRIST_POINTS THEN ZPoints(c, n)
    ELSE IF n >= MAX_ZOBRIST_POINTS THEN ZPoints(c, MAX_ZOBRIST_POINTS - 1)
    ELSE {}

\* the points part of the key update of do_move, for one colour
DoPointsOf(p, k, c) ==
    LET new == ThisSt(p).pointsCount[c]
        old == p.st[Len(p.st) - 1].pointsCount[c]
    IN  IF new # old THEN Xor(Xor(k, PointsBucket(c, old)), PointsBucket(c, new)) ELSE k

\* the points part of the key update of do_move
DoPoints(p, k) ==
    IF p.var.pointsCounting THEN DoPointsOf(p, DoPointsOf(p, k, "WHITE"), "BLACK") ELSE k

\* the capture block runs when a piece is captured
DoCaptureIf(x, m, us) == IF x.captured # NO_PIECE THEN DoCapture(x, m, us) ELSE x

\* Position::blast_squares(to): the destination and the non-pawn pieces next to it
blast_squares(p, to) == (attacks_bb("WHITE", "KING", to, {}) \cap (pieces(p) \ piecesT(p, {"PAWN"}))) \cup {to}

\* the removal loop of a blast: every piece standing on a square of mask leaves the board
RECURSIVE BlastLoop(_, _)
BlastLoop(x, mask) ==
    IF mask = {} THEN x
    ELSE LET p == x.p
             top == Len(p.st)
             bsq == Lsb(mask)
             bpc == piece_on(p, bsq)
             bc == color_of(bpc)
             capturedPromoted == is_promoted(p, bsq)
             pieceToHand == IF ~capturedPromoted THEN FlipPiece(bpc)
                            ELSE make_piece(Flip(bc), "PAWN")
             moved == IF p.var.captureType = "PRISON" THEN FlipPiece(pieceToHand) ELSE pieceToHand
             p2 == clear_board(remove_piece(p, bsq), bsq)
             p3 == CASE p.var.captureType = "HAND"   -> add_to_hand(p2, moved)
                     [] p.var.captureType = "PRISON" -> add_to_prison(p2, moved)
                     [] OTHER -> p2
             newN == Clamp(IF p.var.captureType = "PRISON"
                           THEN p3.pieceCountInPrison[Flip(color_of(moved))][type_of(moved)]
                           ELSE p3.pieceCountInHand[color_of(moved)][type_of(moved)],
                           0, SQUARE_NB - 1)
             oldN == Clamp(newN - 1, 0, SQUARE_NB - 1)
             cr == ThisSt(p).castlingRights
             cr1 == cr \ p.castlingRightsMask[bsq]
             k1 == IF captures_to_hand(p)
                   THEN Xor(x.k, Xor(ZInHand(moved, oldN), ZInHand(moved, newN)))
                   ELSE x.k
             k2 == Xor(k1, ZPsq(bpc, bsq))
             k3 == IF cr # {} /\ p.castlingRightsMask[bsq] # {}
                   THEN Xor(k2, Xor(ZCastling(cr), ZCastling(cr1)))
                   ELSE k2
             p4 == [p3 EXCEPT
                      !.st[top].nonPawnMaterial[bc] =
                          IF type_of(bpc) = "PAWN" THEN @ ELSE @ - PieceValueMg(type_of(bpc)),
                      !.st[top].materialKey = Xor(@, ZPsq(bpc, p3.pieceCount[bpc])),
                      !.st[top].pawnKey = IF type_of(bpc) = "PAWN" THEN Xor(@, ZPsq(bpc, bsq)) ELSE @,
                      !.st[top].castlingRights = cr1,
                      !.st[top].unpromotedBycatch =
                          [s \in DOMAIN @ \cup {bsq} |-> IF s = bsq THEN bpc ELSE @[s]],
                      !.st[top].promotedBycatch =
                          IF capturedPromoted THEN @ \cup {bsq} ELSE @]
         IN  BlastLoop([x EXCEPT !.p = AssignPoints(p4, p.sideToMove, bpc), !.k = k3],
                       mask \ {bsq})

\* the enemy pieces next to the square to that the move has flanked: the
\* custodial capture of the surround-capture variants
SurroundMask(p, us, to) ==
    LET v == p.var
        them == Flip(us)
        enclosed(s) == \A s2 \in UNION {Step(s, d[1], d[2]) : d \in Orthogonals} :
                           s2 \in v.surroundCaptureHostileRegion \/ s2 \in piecesC(p, us)
        taken(s, oppSquare) ==
            IF ~is_ok(oppSquare) THEN v.surroundCaptureEdge
            ELSE /\ v.surroundCaptureOpposite
                 /\ (oppSquare \in piecesC(p, us) \/ oppSquare \in v.surroundCaptureHostileRegion)
    IN  {s \in piecesC(p, them) :
            \E sign \in {0 - 1, 1} : \E d \in {v.connectDirections[i] : i \in 1..Len(v.connectDirections)} :
                /\ s = to + d * sign
                /\ IF s \in v.surroundCaptureMaxRegion
                   THEN enclosed(s)
                   ELSE taken(s, s + d * sign)}

\* the blast and the custodial capture of do_move: the by-catch record is
\* cleared and written only here, and never for a pass
DoBlast(x, m, us) ==
    LET v == x.p.var
        top == Len(x.p.st)
        surround == v.surroundCaptureOpposite \/ v.surroundCaptureEdge
        blast ==    (x.captured # NO_PIECE /\ v.blastOnCapture)
                 \/ (v.blastOnMove /\ x.captured = NO_PIECE)
        cleared == [x EXCEPT !.p.st[top].unpromotedBycatch = [s \in {} |-> NO_PIECE],
                             !.p.st[top].promotedBycatch = {}]
        removal_mask ==    (IF blast THEN blast_squares(x.p, x.to) ELSE {})
                      \cup (IF surround THEN SurroundMask(x.p, us, x.to) ELSE {})
    IN  IF (surround \/ blast) /\ ~is_pass(m)
        THEN BlastLoop(cleared, removal_mask)
        ELSE x

\* st->capturedPiece = captured
DoCapturedPiece(x) == [x EXCEPT !.p.st[Len(x.p.st)].capturedPiece = x.captured]

\* the walling step where the walls of the previous state are left standing
DoWalling_keeps_walls(x, m) ==
    LET p == x.p
        top == Len(p.st)
    IN  IF walling(p) /\ (~p.var.wallOrMove \/ m.from = m.to)
        THEN [x EXCEPT !.p = [p EXCEPT !.st[top].wallSquares = @ \cup {gating_square(m)},
                                       !.byTypeBB["ALL_PIECES"] = @ \cup {gating_square(m)}],
                       !.k = Xor(x.k, ZWall(gating_square(m)))]
        ELSE x

\* the wall square that a walling move places: under duck walling the walls
\* of the previous state go first
DoWalling(x, m) ==
    LET p == x.p
        top == Len(p.st)
        duck == p.var.wallingRule = "DUCK"
        b == IF duck THEN p.st[top - 1].wallSquares ELSE {}
        p1 == IF duck
              THEN [p EXCEPT !.byTypeBB["ALL_PIECES"] = Xor(@, b), !.st[top].wallSquares = {}]
              ELSE p
        k1 == Xor(x.k, UNION {ZWall(s) : s \in b})
    IN  IF walling(p) /\ (~p.var.wallOrMove \/ m.from = m.to)
        THEN [x EXCEPT !.p = [p1 EXCEPT !.st[top].wallSquares = @ \cup {gating_square(m)},
                                        !.byTypeBB["ALL_PIECES"] = @ \cup {gating_square(m)}],
                       !.k = Xor(k1, ZWall(gating_square(m)))]
        ELSE x

\* the board and key updates of do_move, in the order of the code
DoBoard(x, m, us, pc) ==
    DoWalling(DoBlast(DoRemoveGates(DoCommitGates(
        DoGating(DoCapturedPiece(
            DoPawn(DoMovePiece(DoEpAndCastlingRights(DoMoveKey(DoCaptureIf(x, m, us), m, us, pc),
                                                     m, us),
                               m, us, pc),
                   m, us, pc)), m, us),
        m), m, us), m, us), m)

\* st->key = k, the checkers and the side to move
DoFinish(p, k, givesCheck, us) ==
    [p EXCEPT
       !.st[Len(p.st)].key = k,
       !.st[Len(p.st)].checkersBB =
           IF givesCheck
           THEN attackers_to(p, square(p, Flip(us), "KING"), pieces(p), us) \cap piecesC(p, us)
           ELSE {},
       !.sideToMove = Flip(us)]

\* DoRepetition that never marks a repetition of a repetition as negative
DoRepetition_unsigned(p) ==
    [p EXCEPT !.st[Len(p.st)].repetition =
        IF RepetitionEnd(p) >= 4 THEN RepetitionWalk_unsigned(p.st, 4, RepetitionEnd(p)) ELSE 0]

\* the repetition info of the new state
DoRepetition(p) ==
    [p EXCEPT !.st[Len(p.st)].repetition =
        IF RepetitionEnd(p) >= 4 THEN RepetitionWalk(p.st, 4, RepetitionEnd(p)) ELSE 0]

\* the end of do_move: the pawn check zone, the key, the checkers, the repetition
DoEnd(x, givesCheck, us) ==
    DoRepetition(DoFinish(updatePawnCheckZone(x.p), DoPoints(x.p, x.k), givesCheck, us))

\* Position::do_move(m, newSt, givesCheck): newSt is the record the caller
\* supplies, with whatever it held before
do_move_into(p, m, newSt0, givesCheck) ==
    LET us == p.sideToMove
        old == ThisSt(p)
        pc == moved_piece(p, m)
        captured0 == IF m.to = m.from THEN NO_PIECE ELSE captured_piece(p, m)
        \* memcpy of the fields before key; the rest of newSt is what do_move writes,
        \* and the by-catch record is what the caller left there
        newSt == [ZeroSt EXCEPT
                    !.unpromotedBycatch = newSt0.unpromotedBycatch,
                    !.promotedBycatch = newSt0.promotedBycatch,
                    !.pawnKey = old.pawnKey, !.materialKey = old.materialKey,
                    !.nonPawnMaterial = old.nonPawnMaterial,
                    !.castlingRights = old.castlingRights,
                    !.castlingKingSquare = old.castlingKingSquare,
                    !.rule50 = old.rule50 + 1, !.pliesFromNull = old.pliesFromNull + 1,
                    !.checksRemaining = CountCheck(p, old.checksRemaining, givesCheck, us),
                    !.epSquares = old.epSquares, !.wallSquares = old.wallSquares,
                    !.gatesBB = old.gatesBB, !.pointsCount = old.pointsCount,
                    !.move = m, !.capturedpromoted = is_promoted(p, m.to)]
        p0 == [p EXCEPT !.st = Append(@, newSt), !.gamePly = @ + 1]
        k0 == Xor(old.key, ZSide)
        k1 == IF p.var.checkCounting /\ givesCheck
              THEN Xor(k0, Xor(ZChecks(us, old.checksRemaining[us]),
                               ZChecks(us, old.checksRemaining[us] - 1)))
              ELSE k0
        cas == do_castling(p0, TRUE, us, m.from, m.to)
        x0 == IF m.type = "CASTLING"
              THEN [p |-> cas.p, to |-> cas.to, captured |-> NO_PIECE,
                    k |-> Xor(k1, Xor(ZPsq(captured0, cas.rfrom), ZPsq(captured0, cas.rto)))]
              ELSE [p |-> p0, to |-> m.to, captured |-> captured0, k |-> k1]
    IN  DoEnd(DoBoard(x0, m, us, pc), givesCheck, us)

\* do_move into a value-initialised record, as the state lists supply it
do_move(p, m, givesCheck) == do_move_into(p, m, ZeroSt, givesCheck)

\* do_null_move() that leaves the en passant squares standing
do_null_move_keeps_ep(p) ==
    [p EXCEPT !.st = Append(@, [ThisSt(p) EXCEPT !.key = Xor(@, ZSide),
                                                 !.rule50 = @ + 1, !.pliesFromNull = 0,
                                                 !.repetition = 0]),
              !.sideToMove = Flip(@)]

\* Position::do_null_move(newSt): the whole state record is copied, then the
\* en passant squares leave it and the key, and the side to move flips
do_null_move(p) ==
    [p EXCEPT !.st = Append(@, [ThisSt(p) EXCEPT
                                  !.key = Xor(Xor(@, EpKey(ThisSt(p).epSquares)), ZSide),
                                  !.epSquares = {},
                                  !.rule50 = @ + 1, !.pliesFromNull = 0,
                                  !.repetition = 0]),
              !.sideToMove = Flip(@)]

\* Position::undo_null_move()
undo_null_move(p) ==
    [p EXCEPT !.st = SubSeq(@, 1, Len(@) - 1), !.sideToMove = Flip(@)]

\* the loop of undo_move that puts the by-catch of the record si back on the
\* squares of blast
RECURSIVE AddBlastPieces(_, _, _)
AddBlastPieces(p, si, blast) ==
    IF blast = {} THEN p
    ELSE LET bsq == Lsb(blast)
             bpc == IF bsq \in DOMAIN si.unpromotedBycatch THEN si.unpromotedBycatch[bsq]
                    ELSE NO_PIECE
             isPromoted == bsq \in si.promotedBycatch
             p1 == put_piece(p, bpc, bsq, isPromoted)
             p2 == CASE p.var.captureType = "HAND" ->
                          remove_from_hand(p1, IF isPromoted
                                               THEN make_piece(Flip(color_of(bpc)), "PAWN")
                                               ELSE FlipPiece(bpc))
                     [] p.var.captureType = "PRISON" ->
                          remove_from_prison(p1, IF isPromoted
                                                 THEN make_piece(color_of(bpc), "PAWN")
                                                 ELSE bpc)
                     [] OTHER -> p1
         IN  AddBlastPieces(IF bpc # NO_PIECE THEN p2 ELSE p, si, blast \ {bsq})

\* Position::undo_move(m)
undo_move(p, m) ==
    LET us == Flip(p.sideToMove)
        si == ThisSt(p)
        from == m.from
        to == m.to
        v == p.var
        uw == [p EXCEPT !.sideToMove = us,
                        !.byTypeBB["ALL_PIECES"] =
                            Xor(@, Xor(si.wallSquares, p.st[Len(p.st) - 1].wallSquares))]
        u0 == IF    v.surroundCaptureOpposite \/ v.surroundCaptureEdge
                 \/ (si.capturedPiece # NO_PIECE /\ v.blastOnCapture)
                 \/ (v.blastOnMove /\ si.capturedPiece = NO_PIECE)
              THEN AddBlastPieces(uw, si, attacks_bb("WHITE", "KING", to, {}) \cup {to})
              ELSE uw
        \* pc = piece_on(to) is read again after the blast pieces are back
        pc == piece_on(u0, to)
        u0g == IF is_gating(m)
               THEN add_to_hand(clear_board(remove_piece(u0, gating_square(m)), gating_square(m)),
                                make_piece(us, gating_type(m)))
               ELSE u0
        u1 == IF p.var.commitGates /\ si.removedGatingType # "NO_PIECE_TYPE"
              THEN remove_piece(commit_piece(u0g, piece_on(u0g, from), file_of(from)), from)
              ELSE u0g
        u2 == IF p.var.commitGates /\ si.capturedPiece # NO_PIECE
                 /\ si.capturedGatingType # "NO_PIECE_TYPE"
              THEN commit_piece(u1, make_piece(color_of(si.capturedPiece), si.capturedGatingType),
                                file_of(to))
              ELSE u1
        u3a == IF p.var.prisonPawnPromotion /\ type_of(si.promotionPawn) = "PAWN"
               THEN add_to_prison(remove_from_prison(u2, si.promotionPawn), pc)
               ELSE u2
        u3 == IF m.type = "PROMOTION"
              THEN put_piece(remove_piece(u3a, to), si.promotionPawn, to, FALSE)
              ELSE u2
        u4 == IF m.type = "DROP"
              THEN add_to_hand(clear_board(remove_piece(u3, to), to), make_piece(us, m.pt))
              ELSE move_piece(u3, to, from)
        capsq == IF m.type = "EN_PASSANT" THEN si.captureSquare ELSE to
        u5 == put_piece(u4, si.capturedPiece, capsq, si.capturedpromoted)
        u6 == CASE p.var.captureType = "HAND" ->
                     remove_from_hand(u5, IF si.capturedpromoted
                                          THEN make_piece(Flip(color_of(si.capturedPiece)), "PAWN")
                                          ELSE FlipPiece(si.capturedPiece))
                [] p.var.captureType = "PRISON" ->
                     remove_from_prison(u5, IF si.capturedpromoted
                                            THEN make_piece(color_of(si.capturedPiece), "PAWN")
                                            ELSE si.capturedPiece)
                [] OTHER -> u5
        u7 == IF m.type = "CASTLING" THEN do_castling(u3, FALSE, us, from, to).p
              ELSE IF si.capturedPiece # NO_PIECE THEN u6
              ELSE u4
    IN  [u7 EXCEPT !.st = SubSeq(@, 1, Len(@) - 1), !.gamePly = @ - 1]

\* -------------------------------------------------------------- legal
\* legal() without its last test: a piece other than the king may leave the
\* king attacked
legal_without_king_test(p, m) ==
    IF type_of(moved_piece(p, m)) = "KING" /\ m.type # "CASTLING"
    THEN attackers_to(p, m.to, Xor(pieces(p), {m.from}) \cup {m.to}, Flip(p.sideToMove)) = {}
    ELSE TRUE

\* Position::legal(m)
legal(p, m) ==
    LET us == p.sideToMove
        them == Flip(us)
        from == m.from
        to == m.to
        capsq == capture_square(p, to)
        kto == make_square(IF to > from THEN p.var.castlingKingsideFile
                           ELSE p.var.castlingQueensideFile, castling_rank(p, us))
        \* the squares kto, kto + step, ... up to but excluding from
        path == {s \in rank_bb(rank_of(from)) :
                    IF kto > from THEN s > from /\ s <= kto ELSE s < from /\ s >= kto}
        occupied == (IF m.type # "DROP" THEN Xor(pieces(p), {from}) ELSE pieces(p)) \cup {to}
    IN  CASE m.type = "EN_PASSANT" /\ count(p, us, "KING") > 0 ->
               attackers_to(p, square(p, us, "KING"),
                            Xor(Xor(pieces(p), {from}), {capsq}) \cup {to}, them)
                 \cap (Xor(Xor(pieces(p), {from}), {capsq}) \cup {to}) = {}
          [] m.type = "CASTLING" ->
                  ~(is_gating(m) /\ gating_square(m) \in {kto, IF to > from THEN kto - 1 ELSE kto + 1})
               /\ (   type_of(piece_on(p, from)) # "KING"
                   \/ (   (\A s \in path : attackers_to(p, s, pieces(p), them) = {})
                       /\ attackers_to(p, kto, Xor(pieces(p), {to}), them) = {}))
          [] OTHER ->
               IF type_of(moved_piece(p, m)) = "KING"
               THEN attackers_to(p, to, occupied, them) = {}
               ELSE IF count(p, us, "KING") = 0 THEN TRUE
               ELSE attackers_to(p, square(p, us, "KING"), occupied, them) \ {to} = {}

\* -------------------------------------------------------- gives_check
gives_check(p, m) ==
    LET us == p.sideToMove
        them == Flip(us)
        from == m.from
        to == m.to
        ksq == square(p, them, "KING")
        occupied == (IF m.type # "DROP" THEN Xor(pieces(p), {from}) ELSE pieces(p)) \cup {to}
        capsq == capture_square(p, to)
        b == Xor(Xor(pieces(p), {from}), {capsq}) \cup {to}
        kto == make_square(IF to > from THEN p.var.castlingKingsideFile
                           ELSE p.var.castlingQueensideFile, castling_rank(p, us))
        rto == IF to > from THEN kto - 1 ELSE kto + 1
    IN  IF count(p, them, "KING") = 0 THEN FALSE
        ELSE IF m.type \notin {"PROMOTION", "CASTLING"}
                /\ to \in check_squares(p, type_of(moved_piece(p, m))) THEN TRUE
        ELSE IF m.type # "DROP" /\ from \in blockers_for_king(p, them)
                /\ attackers_to(p, ksq, occupied, us) \cap occupied # {} THEN TRUE
        ELSE IF is_gating(m)
                /\ ksq \in attacks_bb(us, gating_type(m), gating_square(m),
                                      Xor(pieces(p), {from}) \cup {to}) THEN TRUE
        ELSE CASE m.type \in {"NORMAL", "DROP"} -> FALSE
               [] m.type = "PROMOTION" ->
                    ksq \in attacks_bb(us, m.pt, to, Xor(pieces(p), {from}))
               [] m.type = "EN_PASSANT" ->
                    attackers_to_both(p, ksq, b) \cap piecesC(p, us) \cap b # {}
               [] OTHER ->
                       ksq \in PseudoAttacks(us, type_of(piece_on(p, to)), rto)
                    /\ ksq \in attacks_bb(us, type_of(piece_on(p, to)), rto,
                                          Xor(Xor(pieces(p), {from}), {to}) \cup {rto, kto})

\* ------------------------------------- movegen.cpp: the pseudo-legal moves
Mv(t, from, to, pt) == [type |-> t, from |-> from, to |-> to, pt |-> pt]

PromotionTypes(p, us) ==
    IF p.var.prisonPawnPromotion
    THEN {pt \in p.var.promotionPieceTypes : count_in_prison(p, Flip(us), pt) > 0}
    ELSE p.var.promotionPieceTypes

PawnMoves(p, from) ==
    LET us == p.sideToMove
        them == Flip(us)
        one == from + pawn_push(us)
        two == from + 2 * pawn_push(us)
        three == from + 3 * pawn_push(us)
        free == board_bb(p) \ pieces(p)
        targets ==   (IF one \in free THEN {one} ELSE {})
                \cup (IF    p.var.doubleStep /\ rank_of(from) = relative_rank(p, us, 1)
                         /\ one \in free /\ two \in free THEN {two} ELSE {})
                \cup (IF    p.var.tripleStep /\ rank_of(from) = relative_rank(p, us, 1)
                         /\ one \in free /\ two \in free /\ three \in free
                      THEN {three} ELSE {})
                \cup ((pawn_attacks_bb(us, from) \cap piecesC(p, them) \cap board_bb(p))
                      \ piecesT(p, {"KING"}))
    IN       {Mv("NORMAL", from, to, "NO_PIECE_TYPE") : to \in targets \ promotion_zone(p, us)}
        \cup {Mv("PROMOTION", from, to, pt) :
                 to \in targets \cap promotion_zone(p, us), pt \in PromotionTypes(p, us)}
        \cup {Mv("EN_PASSANT", from, to, "NO_PIECE_TYPE") :
                 to \in pawn_attacks_bb(us, from) \cap ThisSt(p).epSquares \cap free}

PieceMoves(p, from) ==
    LET us == p.sideToMove
        pt == type_of(piece_on(p, from))
        targets == (attacks_bb(us, pt, from, pieces(p)) \cap board_bb(p))
                   \ ((pieces(p) \ piecesC(p, Flip(us))) \cup piecesT(p, {"KING"}))
    IN  {Mv("NORMAL", from, to, "NO_PIECE_TYPE") : to \in targets}

CastlingMoves(p) ==
    LET us == p.sideToMove
        si == ThisSt(p)
    IN  {Mv("CASTLING", si.castlingKingSquare[us], p.castlingRookSquare[cr], "NO_PIECE_TYPE") :
            cr \in {r \in si.castlingRights \cap ColorRights(us) :
                       si.checkersBB = {} /\ p.castlingPath[r] \cap pieces(p) = {}}}

DropMoves(p) ==
    LET us == p.sideToMove
        region(pt) == IF pt = "PAWN"
                      THEN board_bb(p) \ (rank_bb(0) \cup rank_bb(p.var.maxRank))
                      ELSE board_bb(p)
    IN  IF ~p.var.pieceDrops THEN {}
        ELSE UNION {{Mv("DROP", SQ_NONE, to, pt) : to \in region(pt) \ pieces(p)} :
                      pt \in {t \in PieceTypes : count_in_hand(p, us, t) > 0}}

\* a move from a gate square with each piece type in hand gated onto it; a
\* castling move gates on the king square or on the rook square
GatingMoves(p, moves) ==
    LET us == p.sideToMove
        inHand == {t \in PieceTypes : count_in_hand(p, us, t) > 0}
        gateSquares(m) == ({m.from} \cup (IF m.type = "CASTLING" THEN {m.to} ELSE {}))
                          \cap gates(p, us)
    IN  IF ~p.var.seirawanGating THEN {}
        ELSE UNION {{[type |-> m.type, from |-> m.from, to |-> m.to, pt |-> m.pt,
                      gt |-> t, gsq |-> g] : t \in inHand, g \in gateSquares(m)} :
                       m \in {n \in moves : n.type \in {"NORMAL", "CASTLING"}}}

PlainMoves(p) ==
    LET us == p.sideToMove
    IN       UNION {PawnMoves(p, from) : from \in piecesCT(p, us, {"PAWN"})}
        \cup UNION {PieceMoves(p, from) : from \in piecesC(p, us) \ piecesT(p, {"PAWN"})}
        \cup CastlingMoves(p) \cup DropMoves(p)

PseudoLegalMoves(p) == PlainMoves(p) \cup GatingMoves(p, PlainMoves(p))

\* MoveList<LEGAL>
LegalMoves(p) == {m \in PseudoLegalMoves(p) : legal(p, m)}

\* ------------------------------------------------------------- see_ge
VALUE_ZERO == 0
VALUE_INFINITE == 32001
VALUE_MATE == 32000

PieceValue(pc) == IF pc = NO_PIECE THEN 0 ELSE PieceValueMg(type_of(pc))

\* Position::capture(m)
capture(p, m) ==
    \/ m.type = "EN_PASSANT"
    \/ m.type \notin {"CASTLING", "DROP"} /\ ~empty(p, m.to)


RECURSIVE MinOver(_, _)
MinOver(vals, acc) ==
    IF vals = {} THEN acc
    ELSE LET v == CHOOSE x \in vals : TRUE
         IN  MinOver(vals \ {v}, Min(acc, v))

RECURSIVE SumOver(_, _, _)
SumOver(p, sqs, us) ==
    IF sqs = {} THEN 0
    ELSE LET s == Lsb(sqs)
             bpc == piece_on(p, s)
         IN  (IF color_of(bpc) = us THEN 0 - PieceValue(bpc) ELSE PieceValue(bpc))
             + SumOver(p, sqs \ {s}, us)

\* Position::blast_see(m)
blast_see(p, m) ==
    LET from == m.from
        to == m.to
        us == color_of(moved_piece(p, m))
        fromto == IF m.type = "DROP" THEN {to} ELSE {from, to}
        blast == blast_squares(p, to)
        enemyRoyal == piecesCT(p, Flip(us), {"KING"})
        attackers == attackers_to(p, to, Xor(pieces(p), fromto), Flip(us))
        minAttacker == MinOver({IF s \in blast THEN VALUE_ZERO ELSE PieceValue(piece_on(p, s)) :
                                  s \in attackers}, VALUE_INFINITE)
        quiet == minAttacker - (IF m.type = "DROP" THEN PieceValueMg(m.pt) ELSE 0)
        result == (IF capture(p, m) THEN VALUE_ZERO ELSE quiet)
                  + SumOver(p, blast \cap pieces(p), us)
    IN  IF blast \cap enemyRoyal # {} THEN VALUE_MATE
        ELSE IF ~capture(p, m) /\ minAttacker = VALUE_INFINITE THEN VALUE_ZERO
        ELSE IF capture(p, m) THEN result - 1
        ELSE Min(result, VALUE_ZERO)

\* the value and the x-ray sliders uncovered when the least valuable of the
\* attackers stmAttackers captures: <<value, square, uncovered>>
NextAttacker(p, to, stmAttackers, occupied) ==
    LET of(pt) == stmAttackers \cap piecesT(p, {pt})
        diag(o) == attacks_bb("WHITE", "BISHOP", to, o) \cap piecesT(p, {"BISHOP", "QUEEN"})
        orth(o) == attacks_bb("WHITE", "ROOK", to, o) \cap piecesT(p, {"ROOK", "QUEEN"})
        fairy == stmAttackers \ piecesT(p, {"KING"})
    IN  CASE of("PAWN") # {} ->
               <<PieceValueMg("PAWN"), Lsb(of("PAWN")), diag(Xor(occupied, {Lsb(of("PAWN"))}))>>
          [] of("PAWN") = {} /\ of("KNIGHT") # {} ->
               <<PieceValueMg("KNIGHT"), Lsb(of("KNIGHT")), {}>>
          [] of("PAWN") = {} /\ of("KNIGHT") = {} /\ of("BISHOP") # {} ->
               <<PieceValueMg("BISHOP"), Lsb(of("BISHOP")), diag(Xor(occupied, {Lsb(of("BISHOP"))}))>>
          [] of("PAWN") = {} /\ of("KNIGHT") = {} /\ of("BISHOP") = {} /\ of("ROOK") # {} ->
               <<PieceValueMg("ROOK"), Lsb(of("ROOK")), orth(Xor(occupied, {Lsb(of("ROOK"))}))>>
          [] of("PAWN") = {} /\ of("KNIGHT") = {} /\ of("BISHOP") = {} /\ of("ROOK") = {}
                /\ of("QUEEN") # {} ->
               <<PieceValueMg("QUEEN"), Lsb(of("QUEEN")),
                 diag(Xor(occupied, {Lsb(of("QUEEN"))})) \cup orth(Xor(occupied, {Lsb(of("QUEEN"))}))>>
          [] OTHER ->
               IF fairy # {} THEN <<PieceValue(piece_on(p, Lsb(fairy))), Lsb(fairy), {}>>
               ELSE <<0, SQ_NONE, {}>>

\* one round of the while (true) loop of see_ge and the rounds after it;
\* stm0 is the side that captured last
RECURSIVE SeeLoop(_, _, _, _, _, _, _)
SeeLoop(p, to, stm0, attackers0, occupied, swap, res) ==
    LET stm == Flip(stm0)
        attackers == attackers0 \cap occupied
        all == attackers \cap piecesC(p, stm)
        stmAttackers == IF pinners(p, Flip(stm)) \cap occupied # {}
                        THEN all \ blockers_for_king(p, stm) ELSE all
        res1 == 1 - res
        nx == NextAttacker(p, to, stmAttackers, occupied)
        swap1 == nx[1] - swap
    IN  IF all = {} \/ stmAttackers = {} THEN res = 1
        ELSE IF nx[2] = SQ_NONE
        THEN (IF attackers \ piecesC(p, stm) # {} THEN 1 - res1 ELSE res1) = 1
        ELSE IF swap1 < res1 THEN res1 = 1
        ELSE SeeLoop(p, to, stm, attackers \cup nx[3], Xor(occupied, {nx[2]}), swap1, res1)

\* see_ge() with its first test inverted: a threshold above the value of
\* the captured piece passes
see_ge_first_test_inverted(p, m, threshold) ==
    IF m.type \notin {"NORMAL", "DROP"} THEN VALUE_ZERO >= threshold
    ELSE IF PieceValue(piece_on(p, m.to)) - threshold < 0 THEN TRUE
    ELSE IF PieceValue(moved_piece(p, m)) - (PieceValue(piece_on(p, m.to)) - threshold) <= 0
    THEN TRUE
    ELSE SeeLoop(p, m.to, color_of(moved_piece(p, m)),
                 attackers_to_both(p, m.to, Xor(Xor(pieces(p), {m.from}), {m.to})),
                 Xor(Xor(pieces(p), {m.from}), {m.to}),
                 PieceValue(moved_piece(p, m)) - (PieceValue(piece_on(p, m.to)) - threshold), 1)

\* Position::see_ge(m, threshold)
see_ge(p, m, threshold) ==
    LET from == m.from
        to == m.to
        swap0 == PieceValue(piece_on(p, to)) - threshold
        swap == PieceValue(moved_piece(p, m)) - swap0
        occupied == Xor(IF m.type # "DROP" THEN Xor(pieces(p), {from}) ELSE pieces(p), {to})
    IN  IF m.type \notin {"NORMAL", "DROP"} THEN VALUE_ZERO >= threshold
        ELSE IF    p.var.checkCounting /\ color_of(moved_piece(p, m)) = p.sideToMove
                /\ gives_check(p, m)
        THEN TRUE
        ELSE IF p.var.blastOnCapture THEN blast_see(p, m) >= threshold
        ELSE IF swap0 < 0 THEN FALSE
        ELSE IF swap <= 0 THEN TRUE
        ELSE SeeLoop(p, to, color_of(moved_piece(p, m)),
                     attackers_to_both(p, to, occupied), occupied, swap, 1)

\* ------------------------------------------------ is_optional_game_end
Negate(v) ==
    CASE v = "VALUE_MATE" -> "-VALUE_MATE" [] v = "-VALUE_MATE" -> "VALUE_MATE" [] OTHER -> v

\* the loop of the n-fold walk from distance i on: stp is chain[n - i + 2] on
\* entry; the result is [end, result]
RECURSIVE NFoldWalk(_, _, _, _, _, _, _, _)
NFoldWalk(p, i, end, cnt, perpetualThem, perpetualUs0, ply, nFold) ==
    LET chain == p.st
        n == Len(chain)
        stp == chain[n - i]
        pThem == perpetualThem /\ stp.checkersBB # {}
        hit == stp.key = chain[n].key
        cnt1 == IF hit THEN cnt + 1 ELSE cnt
        need == IF ply > i /\ ~perpetualUs0 /\ ~pThem THEN 2 ELSE nFold
        value == IF pThem \/ perpetualUs0
                 THEN (IF ~perpetualUs0 THEN "VALUE_MATE"
                       ELSE IF ~pThem THEN "-VALUE_MATE" ELSE "VALUE_DRAW")
                 ELSE p.var.nFoldValue
        pUs == IF i + 1 <= end THEN perpetualUs0 /\ chain[n - i - 1].checkersBB # {}
               ELSE perpetualUs0
    IN  IF i > end THEN [end |-> FALSE, result |-> "VALUE_NONE"]
        ELSE IF hit /\ cnt1 + 1 >= need THEN [end |-> TRUE, result |-> value]
        ELSE NFoldWalk(p, i + 2, end, cnt1, pThem, pUs, ply, nFold)

\* is_optional_game_end() demanding n_fold_rule occurrences at every ply
is_optional_game_end_at_root(p, ply) ==
    IF p.var.nFoldRule > 0 /\ RepetitionEnd(p) >= 4
    THEN NFoldWalk(p, 4, RepetitionEnd(p), 0, FALSE, FALSE, 0, p.var.nFoldRule)
    ELSE [end |-> FALSE, result |-> "VALUE_NONE"]

\* the loop of the AXF chase offset: the checks counted two plies apart,
\* <<checkThem, checkUs>>; idx is the place of stp in the chain
RECURSIVE AXFLoop(_, _, _, _, _, _)
AXFLoop(chain, idx, i, end, checkThem, checkUs) ==
    IF i >= end THEN <<checkThem, checkUs>>
    ELSE AXFLoop(chain, idx - 2, i + 2, end,
                 checkThem + (IF chain[idx - 2].checkersBB # {} THEN 1 ELSE 0),
                 checkUs + (IF chain[idx - 3].checkersBB # {} THEN 1 ELSE 0))

\* the offset the n-move rule grants for the checks of a chase
NMoveOffset(p) ==
    LET si == ThisSt(p)
        n == Len(p.st)
        c == AXFLoop(p.st, n, 2, Min(si.rule50, si.pliesFromNull),
                     IF si.checkersBB # {} THEN 1 ELSE 0,
                     IF p.st[n - 1].checkersBB # {} THEN 1 ELSE 0)
    IN  IF p.var.chasingRule = "AXF_CHASING" /\ si.pliesFromNull >= 20
        THEN 2 * Max(Max(c[1], c[2]) - 10, 0)
             + (IF p.var.protocol \in {"UCCI", "UCI_CYCLONE"} THEN 20 ELSE 0)
        ELSE 0

\* NMoveRule that ignores the chase offset
NMoveRule_without_offset(p, ply) ==
    IF    p.var.nMoveRule > 0 /\ ThisSt(p).rule50 > 2 * p.var.nMoveRule - 1
       /\ (ThisSt(p).checkersBB = {} \/ LegalMoves(p) # {})
    THEN [end |-> TRUE,
          result |-> IF p.var.materialCounting THEN "MATERIAL_COUNTING" ELSE "VALUE_DRAW"]
    ELSE [end |-> FALSE, result |-> "VALUE_NONE"]

\* the n-move rule block of is_optional_game_end(); the value of
\* material_counting_result() is kept as the name MATERIAL_COUNTING
NMoveRule(p, ply) ==
    IF    p.var.nMoveRule > 0 /\ ThisSt(p).rule50 > 2 * p.var.nMoveRule - 1
       /\ (ThisSt(p).checkersBB = {} \/ LegalMoves(p) # {})
       /\ ThisSt(p).rule50 - NMoveOffset(p) > 2 * p.var.nMoveRule - 1
    THEN [end |-> TRUE,
          result |-> IF p.var.materialCounting THEN "MATERIAL_COUNTING" ELSE "VALUE_DRAW"]
    ELSE [end |-> FALSE, result |-> "VALUE_NONE"]

\* Position::is_optional_game_end(result, ply): [end, result]
is_optional_game_end(p, ply) ==
    LET si == ThisSt(p)
        chain == p.st
        n == Len(chain)
        end == RepetitionEnd(p)
    IN  IF NMoveRule(p, ply).end THEN NMoveRule(p, ply)
        ELSE IF p.var.nFoldRule > 0 /\ end >= 4
        THEN NFoldWalk(p, 4, end, 0,
                       p.var.perpetualCheckIllegal /\ si.checkersBB # {}
                           /\ chain[n - 2].checkersBB # {},
                       p.var.perpetualCheckIllegal /\ chain[n - 1].checkersBB # {}
                           /\ chain[n - 3].checkersBB # {},
                       ply, p.var.nFoldRule)
        ELSE [end |-> FALSE, result |-> "VALUE_NONE"]

\* ----------------------------------------------- is_immediate_game_end
\* the extinction test of one colour and piece type
Extinct(p, c, pt) ==
       count_with_hand(p, c, pt) <= p.var.extinctionPieceCount
    /\ count_with_hand(p, Flip(c), pt) >= p.var.extinctionOpponentPieceCount
                                         + (IF p.var.extinctionClaim /\ c = p.sideToMove THEN 1 ELSE 0)

\* the first colour, in the order ~sideToMove, sideToMove, with an extinct type
ExtinctColor(p) ==
    IF \E pt \in p.var.extinctionPieceTypes : Extinct(p, Flip(p.sideToMove), pt)
    THEN Flip(p.sideToMove)
    ELSE IF \E pt \in p.var.extinctionPieceTypes : Extinct(p, p.sideToMove, pt)
    THEN p.sideToMove
    ELSE "NONE"

\* ------------------------------------------------ connection win rules
\* a Direction is the difference of two square numbers: 1 is EAST, NORTH is
\* FILE_NB; the files a single step of d crosses
FileStep(d) ==
    IF d % FILE_NB > FILE_NB \div 2 THEN (d % FILE_NB) - FILE_NB ELSE d % FILE_NB

\* shift(d, b): the squares one step of d from b, none across a board edge
shift(p, d, b) ==
    {s + d : s \in {x \in b : /\ is_ok(x + d)
                              /\ file_of(x + d) - file_of(x) = FileStep(d)
                              /\ file_of(x + d) <= p.var.maxFile
                              /\ rank_of(x + d) <= p.var.maxRank}}

\* line_bb(s1, s2): the whole line through two squares of a rank, file or
\* diagonal, and nothing for two squares not on one line
line_bb(s1, s2) ==
    IF s1 = s2 THEN {}
    ELSE IF file_of(s1) = file_of(s2) THEN {s \in Squares : file_of(s) = file_of(s1)}
    ELSE IF rank_of(s1) = rank_of(s2) THEN {s \in Squares : rank_of(s) = rank_of(s1)}
    ELSE IF file_of(s1) - rank_of(s1) = file_of(s2) - rank_of(s2)
    THEN {s \in Squares : file_of(s) - rank_of(s) = file_of(s1) - rank_of(s1)}
    ELSE IF file_of(s1) + rank_of(s1) = file_of(s2) + rank_of(s2)
    THEN {s \in Squares : file_of(s) + rank_of(s) = file_of(s1) + rank_of(s1)}
    ELSE {}

\* the directions of a sequence, as a set
DirSet(dirs) == {dirs[i] : i \in 1..Len(dirs)}

\* connectPieces: the pieces of the connect piece types of the side that
\* just moved
ConnectPieces(p) == piecesCT(p, Flip(p.sideToMove), p.var.connectPieceTypes)

\* b &= shift(d, b), connect_n - 1 times or until b is empty
RECURSIVE ConnectNLoop(_, _, _, _, _)
ConnectNLoop(p, d, b, i, n) ==
    IF i < n /\ b # {} THEN ConnectNLoop(p, d, b \cap shift(p, d, b), i + 1, n) ELSE b

\* Connect-n
ConnectN(p) ==
    /\ p.var.connectN > 0
    /\ Cardinality(ConnectPieces(p)) >= p.var.connectN
    /\ \E d \in DirSet(p.var.connectDirections) :
          ConnectNLoop(p, d, ConnectPieces(p), 1, p.var.connectN) # {}

\* newBitboard |= shift(d, current | newBitboard) & connectPieces, for each
\* direction in turn
RECURSIVE RegionSweep(_, _, _, _)
RegionSweep(p, dirs, current, newBitboard) ==
    IF dirs = <<>> THEN newBitboard
    ELSE RegionSweep(p, Tail(dirs), current,
                     newBitboard \cup (shift(p, Head(dirs), current \cup newBitboard)
                                       \cap ConnectPieces(p)))

\* the expansion loop of the region connection: [connected, loops], loops
\* being the number of times the body ran
RECURSIVE RegionLoop(_, _, _, _)
RegionLoop(p, target, current, loops) ==
    LET newBitboard == RegionSweep(p, p.var.connectDirections, current, {})
    IN  IF newBitboard \cap target # {} THEN [connected |-> TRUE, loops |-> loops + 1]
        ELSE IF newBitboard \ current = {} THEN [connected |-> FALSE, loops |-> loops + 1]
        ELSE RegionLoop(p, target, current \cup newBitboard, loops + 1)

\* the region connection with the expansion stopped after one sweep
ConnectRegion_one_sweep(p) ==
    LET them == Flip(p.sideToMove)
    IN  /\ p.var.connectRegion1[them] \cap ConnectPieces(p) # {}
        /\ p.var.connectRegion2[them] \cap ConnectPieces(p) # {}
        /\ RegionSweep(p, p.var.connectDirections,
                       p.var.connectRegion1[them] \cap ConnectPieces(p), {})
           \cap p.var.connectRegion2[them] # {}

\* region-to-region connection
ConnectRegion(p) ==
    LET them == Flip(p.sideToMove)
    IN  /\ p.var.connectRegion1[them] \cap ConnectPieces(p) # {}
        /\ p.var.connectRegion2[them] \cap ConnectPieces(p) # {}
        /\ RegionLoop(p, p.var.connectRegion2[them],
                      p.var.connectRegion1[them] \cap ConnectPieces(p), 0).connected

\* connectors &= shift<SOUTH> & shift<EAST> & shift<SOUTH_EAST>
RECURSIVE NxNLoop(_, _, _, _)
NxNLoop(p, connectors, i, n) ==
    IF i < n /\ connectors # {}
    THEN NxNLoop(p, connectors \cap shift(p, 0 - NORTH, connectors)
                              \cap shift(p, 1, connectors)
                              \cap shift(p, 1 - NORTH, connectors), i + 1, n)
    ELSE connectors

\* Connect-NxN
ConnectNxN(p) ==
    /\ p.var.connectNxN > 0
    /\ Cardinality(ConnectPieces(p)) >= p.var.connectNxN * p.var.connectNxN
    /\ NxNLoop(p, ConnectPieces(p), 1, p.var.connectNxN) # {}

\* Collinear-n
CollinearN(p) ==
    /\ p.var.collinearN > 0
    /\ Cardinality(ConnectPieces(p)) >= p.var.collinearN
    /\ \E s \in ConnectPieces(p) : \E d \in DirSet(p.var.connectDirections) :
          /\ is_ok(s + d)
          /\ Cardinality(line_bb(s, s + d) \cap ConnectPieces(p)) >= p.var.collinearN

\* getConnectDirections(): the steps of the adjacency of groups
getConnectDirections(p) == p.var.connectGroupDirections

\* the queue loop of the flood fill: [group, visited] once the queue is empty
RECURSIVE GroupFill(_, _, _, _, _)
GroupFill(p, playerPieces, q, group, visited) ==
    IF q = <<>> THEN [group |-> group, visited |-> visited]
    ELSE LET s == Head(q)
             dirs == getConnectDirections(p)
             \* the squares pushed while the directions are gone through
             found == {s + dirs[i] : i \in {j \in 1..Len(dirs) :
                          /\ is_ok(s + dirs[j])
                          /\ s + dirs[j] \in playerPieces
                          /\ s + dirs[j] \notin visited}}
             order == [i \in 1..Len(dirs) |-> s + dirs[i]]
             pushed == SelectSeq(order, LAMBDA t : t \in found)
         IN  GroupFill(p, playerPieces, Tail(q) \o pushed,
                       group \cup found, visited \cup found)

\* the groups of the pieces of the side that just moved, from the lowest
\* unvisited square on, until one has targetGroupSize pieces
RECURSIVE GroupSearch(_, _, _, _)
GroupSearch(p, playerPieces, visited, targetGroupSize) ==
    IF playerPieces \ visited = {} THEN FALSE
    ELSE LET start_sq == Lsb(playerPieces \ visited)
             f == GroupFill(p, playerPieces, <<start_sq>>, {start_sq},
                            visited \cup {start_sq})
         IN  IF Cardinality(f.group) >= targetGroupSize THEN TRUE
             ELSE GroupSearch(p, playerPieces, f.visited, targetGroupSize)

\* Connect-Group
ConnectGroup(p) ==
    LET playerPieces == piecesC(p, Flip(p.sideToMove))
        total == Cardinality(playerPieces)
        targetGroupSize == IF p.var.connectGroup = -1 THEN total ELSE p.var.connectGroup
    IN  /\ p.var.connectGroup # 0
        /\ total >= Abs(p.var.connectGroup) \/ p.var.connectGroup = -1
        /\ targetGroupSize > 0 /\ total >= targetGroupSize
        /\ GroupSearch(p, playerPieces, {}, targetGroupSize)

\* the points goal block of is_immediate_game_end()
PointsGoal(p) ==
    LET stm == p.sideToMove
        pts == ThisSt(p).pointsCount
        goal == p.var.pointsGoal
    IN  IF pts[Flip(stm)] >= goal /\ pts[stm] >= goal
        THEN IF pts[Flip(stm)] = pts[stm] \/ p.var.pointsGoalSimulValue = "VALUE_DRAW"
             THEN [end |-> TRUE, result |-> "VALUE_DRAW"]
             ELSE [end |-> TRUE,
                   result |-> IF pts[Flip(stm)] > pts[stm] THEN p.var.pointsGoalSimulValue
                              ELSE Negate(p.var.pointsGoalSimulValue)]
        ELSE IF pts[Flip(stm)] >= goal
        THEN [end |-> TRUE, result |-> p.var.pointsGoalValue]
        ELSE IF pts[stm] >= goal
        THEN [end |-> TRUE, result |-> Negate(p.var.pointsGoalValue)]
        ELSE [end |-> FALSE, result |-> "VALUE_NONE"]

\* is_immediate_game_end() that gives the extinction value to the wrong side
is_immediate_game_end_sign_swapped(p, ply) ==
    IF p.var.extinctionValue # "VALUE_NONE" /\ ExtinctColor(p) # "NONE"
    THEN [end |-> TRUE,
          result |-> IF ExtinctColor(p) = p.sideToMove THEN Negate(p.var.extinctionValue)
                     ELSE p.var.extinctionValue]
    ELSE [end |-> FALSE, result |-> "VALUE_NONE"]

\* what a block of is_immediate_game_end() leaves: the game goes on, or it
\* ends with a result
NoEnd == [end |-> FALSE, result |-> "VALUE_NONE"]
End(result) == [end |-> TRUE, result |-> result]

\* Extinction
ExtinctionEnd(p) ==
    IF    p.var.extinctionValue # "VALUE_NONE"
       /\ (~p.var.extinctionPseudoRoyal \/ p.var.blastOnCapture)
       /\ ExtinctColor(p) # "NONE"
    THEN End(IF ExtinctColor(p) = p.sideToMove THEN p.var.extinctionValue
             ELSE Negate(p.var.extinctionValue))
    ELSE NoEnd

\* flag_reached(c): a flag piece of the colour stands in its flag region
flag_reached(p, c) == p.var.flagRegion[c] \cap piecesCT(p, c, {p.var.flagPiece}) # {}

\* the black king can still step into its flag region to draw
FlagKingCanFollow(p) ==
    LET stm == p.sideToMove
    IN  /\ p.var.flagMove /\ stm = "BLACK" /\ ThisSt(p).checkersBB = {}
        /\ count(p, stm, "KING") > 0
        /\ p.var.flagRegion[stm] \cap attacks_bb(stm, "KING", square(p, stm, "KING"), {}) # {}
        /\ \E m \in LegalMoves(p) :
              /\ m.type # "DROP"
              /\ type_of(piece_on(p, m.from)) = "KING"
              /\ m.to \in p.var.flagRegion[stm]

\* capture the flag
FlagEnd(p) ==
    LET stm == p.sideToMove
    IN  IF p.var.flagMove /\ flag_reached(p, stm)
        THEN End(IF stm = "WHITE" /\ flag_reached(p, "BLACK") THEN "VALUE_DRAW"
                 ELSE "VALUE_MATE")
        ELSE IF    (~p.var.flagMove \/ p.var.flagPiece = "KING")
                /\ flag_reached(p, Flip(stm))
                /\ ~FlagKingCanFollow(p)
        THEN End("-VALUE_MATE")
        ELSE NoEnd

\* Castle chess
CastlingEnd(p) ==
    LET stm == p.sideToMove
        si == ThisSt(p)
        justCastled == ColorRights(Flip(stm))
                       \cap (IF si.move.from < si.move.to THEN KING_SIDE ELSE QUEEN_SIDE)
        lost(c) ==    ColorRights(c) \cap p.var.castlingWins # {}
                   /\ ColorRights(c) \cap p.var.castlingWins \cap si.castlingRights = {}
    IN  IF p.var.castlingWins = {} THEN NoEnd
        ELSE IF    si.pliesFromNull > 0 /\ si.move.type = "CASTLING"
                /\ p.var.castlingWins \cap justCastled # {}
        THEN End("-VALUE_MATE")
        ELSE IF lost(Flip(stm)) THEN End("VALUE_MATE")
        ELSE IF lost(stm) THEN End("-VALUE_MATE")
        ELSE NoEnd

\* nCheck
CheckCountEnd(p) ==
    IF p.var.checkCounting /\ ThisSt(p).checksRemaining[Flip(p.sideToMove)] = 0
    THEN End("-VALUE_MATE") ELSE NoEnd

\* the points goal
PointsGoalEnd(p) == IF p.var.pointsCounting THEN PointsGoal(p) ELSE NoEnd

\* the connection rules, each won by the side that just moved
ConnectNEnd(p) == IF ConnectN(p) THEN End(Negate(p.var.connectValue)) ELSE NoEnd
ConnectRegionEnd(p) == IF ConnectRegion(p) THEN End(Negate(p.var.connectValue)) ELSE NoEnd
ConnectNxNEnd(p) == IF ConnectNxN(p) THEN End(Negate(p.var.connectValue)) ELSE NoEnd
CollinearNEnd(p) == IF CollinearN(p) THEN End(Negate(p.var.connectValue)) ELSE NoEnd
ConnectGroupEnd(p) == IF ConnectGroup(p) THEN End(Negate(p.var.connectValue)) ELSE NoEnd

\* the board running full; the bikjang and double pass marks are set from
\* is_pass() and are not kept here
FullBoardEnd(p) ==
    IF p.var.adjudicateFullBoard /\ board_bb(p) \ pieces(p) = {}
    THEN End(IF p.var.materialCounting THEN "MATERIAL_COUNTING" ELSE "VALUE_DRAW")
    ELSE NoEnd

\* Tsume mode
TsumeEnd(p) ==
    IF    p.var.tsumeMode /\ count(p, Flip(p.sideToMove), "KING") = 0
       /\ count(p, p.sideToMove, "KING") > 0 /\ ThisSt(p).checkersBB = {}
    THEN End("VALUE_MATE") ELSE NoEnd

\* nMoveHardLimitRule
HardLimitEnd(p) ==
    IF p.var.nMoveHardLimitRule > 0 /\ p.gamePly >= p.var.nMoveHardLimitRule
    THEN End(IF p.var.materialCounting THEN "MATERIAL_COUNTING"
             ELSE p.var.nMoveHardLimitRuleValue)
    ELSE NoEnd

\* failing to checkmate with virtual pieces
VirtualEnd(p) ==
    IF    p.var.twoBoards /\ ThisSt(p).checkersBB = {}
       /\ \E pt \in PieceTypes : count_in_hand(p, Flip(p.sideToMove), pt) < 0
    THEN End("VALUE_MATE") ELSE NoEnd

\* a pawn that checks from outside the zone where it cannot check;
\* square<KING>() is read only where the king stands on the board
PrisonPawnEnd(p) ==
    IF    p.var.prisonPawnPromotion
       /\ count(p, Flip(p.sideToMove), "KING") > 0
       /\ (pawn_attacks_bb(Flip(p.sideToMove), square(p, Flip(p.sideToMove), "KING"))
           \cap piecesCT(p, p.sideToMove, {"PAWN"}))
          \ p.pawnCannotCheckZone[p.sideToMove] # {}
    THEN End("VALUE_MATE") ELSE NoEnd

\* is_immediate_game_end() that looks at the hard move limit first
is_immediate_game_end_limit_first(p, ply) ==
    IF HardLimitEnd(p).end THEN HardLimitEnd(p)
    ELSE IF ExtinctionEnd(p).end THEN ExtinctionEnd(p)
    ELSE IF FlagEnd(p).end THEN FlagEnd(p)
    ELSE IF CastlingEnd(p).end THEN CastlingEnd(p)
    ELSE IF CheckCountEnd(p).end THEN CheckCountEnd(p)
    ELSE IF PointsGoalEnd(p).end THEN PointsGoalEnd(p)
    ELSE IF ConnectNEnd(p).end THEN ConnectNEnd(p)
    ELSE IF ConnectRegionEnd(p).end THEN ConnectRegionEnd(p)
    ELSE IF ConnectNxNEnd(p).end THEN ConnectNxNEnd(p)
    ELSE IF CollinearNEnd(p).end THEN CollinearNEnd(p)
    ELSE IF ConnectGroupEnd(p).end THEN ConnectGroupEnd(p)
    ELSE IF FullBoardEnd(p).end THEN FullBoardEnd(p)
    ELSE IF TsumeEnd(p).end THEN TsumeEnd(p)
    ELSE IF VirtualEnd(p).end THEN VirtualEnd(p)
    ELSE PrisonPawnEnd(p)

\* Position::is_immediate_game_end(result, ply): [end, result]
is_immediate_game_end(p, ply) ==
    IF ExtinctionEnd(p).end THEN ExtinctionEnd(p)
    ELSE IF FlagEnd(p).end THEN FlagEnd(p)
    ELSE IF CastlingEnd(p).end THEN CastlingEnd(p)
    ELSE IF CheckCountEnd(p).end THEN CheckCountEnd(p)
    ELSE IF PointsGoalEnd(p).end THEN PointsGoalEnd(p)
    ELSE IF ConnectNEnd(p).end THEN ConnectNEnd(p)
    ELSE IF ConnectRegionEnd(p).end THEN ConnectRegionEnd(p)
    ELSE IF ConnectNxNEnd(p).end THEN ConnectNxNEnd(p)
    ELSE IF CollinearNEnd(p).end THEN CollinearNEnd(p)
    ELSE IF ConnectGroupEnd(p).end THEN ConnectGroupEnd(p)
    ELSE IF FullBoardEnd(p).end THEN FullBoardEnd(p)
    ELSE IF TsumeEnd(p).end THEN TsumeEnd(p)
    ELSE IF HardLimitEnd(p).end THEN HardLimitEnd(p)
    ELSE IF VirtualEnd(p).end THEN VirtualEnd(p)
    ELSE PrisonPawnEnd(p)

\* ------------------------------------------------------ has_game_cycle
\* the cuckoo tables of Position::init(): the reversible move <<s1, s2>> whose
\* key psq[pc][s1] ^ psq[pc][s2] ^ side is moveKey, for the non-pawn chess
\* pieces; <<>> when no table entry has this key
CuckooPieceTypes == {"KNIGHT", "BISHOP", "ROOK", "QUEEN", "KING"}

CuckooMove(moveKey) ==
    LET atoms == moveKey \ ZSide
        lo == CHOOSE x \in atoms : \A y \in atoms : x[3] <= y[3]
        hi == CHOOSE x \in atoms : \A y \in atoms : x[3] >= y[3]
    IN  IF    /\ Cardinality(moveKey) = 3 /\ ZSide \subseteq moveKey
              /\ \A x \in atoms : x[1] = "psq"
              /\ lo[2] = hi[2] /\ lo[3] < hi[3]
              /\ type_of(lo[2]) \in CuckooPieceTypes
              /\ hi[3] \in attacks_bb(color_of(lo[2]), type_of(lo[2]), lo[3], {})
        THEN <<lo[3], hi[3]>>
        ELSE <<>>

RECURSIVE GameCycleWalk(_, _, _, _)
GameCycleWalk(p, i, end, ply) ==
    LET chain == p.st
        n == Len(chain)
        stp == chain[n - i]
        move == CuckooMove(Xor(chain[n].key, stp.key))
        s1 == move[1]
        s2 == move[2]
    IN  IF i > end THEN FALSE
        ELSE IF move # <<>> /\ Xor(between_bb(s1, s2), {s2}) \cap pieces(p) = {}
        THEN IF ply > i THEN TRUE
             ELSE IF color_of(piece_on(p, IF empty(p, s1) THEN s2 ELSE s1)) # p.sideToMove
             THEN GameCycleWalk(p, i + 2, end, ply)
             ELSE IF stp.repetition # 0 THEN TRUE
             ELSE GameCycleWalk(p, i + 2, end, ply)
        ELSE GameCycleWalk(p, i + 2, end, ply)

\* has_game_cycle() with the walk begun two plies too far back
has_game_cycle_from_five(p, ply) ==
    IF RepetitionEnd(p) < 3 \/ p.var.nFoldValue # "VALUE_DRAW" \/ p.var.perpetualCheckIllegal
    THEN FALSE
    ELSE GameCycleWalk(p, 5, RepetitionEnd(p), ply)

\* Position::has_game_cycle(ply)
has_game_cycle(p, ply) ==
    IF RepetitionEnd(p) < 3 \/ p.var.nFoldValue # "VALUE_DRAW" \/ p.var.perpetualCheckIllegal
    THEN FALSE
    ELSE GameCycleWalk(p, 3, RepetitionEnd(p), ply)

\* ---------------------------------------------- variants and positions
Sq(f, r) == make_square(f, r)
W(pt) == make_piece("WHITE", pt)
B(pt) == make_piece("BLACK", pt)

\* a chess-like variant on a board of 5 files and 5 ranks
MiniChess ==
    [name |-> "minichess", maxFile |-> 4, maxRank |-> 4,
     pieceTypes |-> {"PAWN", "KNIGHT", "BISHOP", "ROOK", "QUEEN", "KING"},
     fastAttacks |-> TRUE, fastAttacks2 |-> FALSE,
     captureType |-> "MOVE_OUT", pieceDrops |-> FALSE, seirawanGating |-> FALSE,
     gating |-> FALSE, castlingKingPiece |-> "KING", castlingDroppedPiece |-> FALSE,
     connectPieceTypes |-> {}, connectN |-> 0, connectDirections |-> <<>>,
     connectRegion1 |-> [c \in Colors |-> {}], connectRegion2 |-> [c \in Colors |-> {}],
     connectNxN |-> 0, collinearN |-> 0, connectGroup |-> 0,
     connectGroupDirections |-> <<>>, connectValue |-> "VALUE_MATE",
     flagMove |-> FALSE, flagPiece |-> "KING", flagRegion |-> [c \in Colors |-> {}],
     castlingWins |-> {}, adjudicateFullBoard |-> FALSE, tsumeMode |-> FALSE,
     nMoveHardLimitRule |-> 0, nMoveHardLimitRuleValue |-> "VALUE_DRAW",
     twoBoards |-> FALSE,
     chasingRule |-> "NO_CHASING", materialCounting |-> FALSE,
     \* the global CurrentProtocol, held with the rules it selects among
     protocol |-> "UCI",
     pointsCounting |-> FALSE, pointsRuleCaptures |-> "POINTS_NONE",
     piecePoints |-> [pt \in PieceTypes |-> 0], pointsGoal |-> 0,
     pointsGoalValue |-> "VALUE_MATE", pointsGoalSimulValue |-> "VALUE_DRAW",
     commitGates |-> FALSE, checkCounting |-> FALSE, prisonPawnPromotion |-> FALSE,
     castling |-> TRUE, castlingKingFile |-> 2, castlingKingsideFile |-> 3,
     castlingQueensideFile |-> 1, castlingRookKingsideFile |-> 4,
     castlingRookQueensideFile |-> 0, oppositeCastling |-> FALSE,
     doubleStep |-> TRUE, promotionPieceTypes |-> {"QUEEN"},
     enPassantRegion |-> Squares, nMoveRuleTypes |-> {"PAWN"},
     nMoveRule |-> 50, nFoldRule |-> 3, nFoldValue |-> "VALUE_DRAW",
     perpetualCheckIllegal |-> FALSE, blastOnCapture |-> FALSE,
     blastOnMove |-> FALSE, surroundCaptureOpposite |-> FALSE,
     surroundCaptureEdge |-> FALSE, surroundCaptureMaxRegion |-> {},
     surroundCaptureHostileRegion |-> {}, pass |-> FALSE,
     wallingRule |-> "NO_WALLING", wallOrMove |-> FALSE, tripleStep |-> FALSE,
     extinctionValue |-> "VALUE_NONE", extinctionPieceTypes |-> {},
     extinctionPieceCount |-> 0, extinctionOpponentPieceCount |-> 0,
     extinctionPseudoRoyal |-> FALSE, extinctionClaim |-> FALSE]

House == [MiniChess EXCEPT !.name = "house", !.captureType = "HAND", !.pieceDrops = TRUE,
                           !.castling = FALSE]
Prison == [MiniChess EXCEPT !.name = "prison", !.captureType = "PRISON",
                            !.prisonPawnPromotion = TRUE, !.castling = FALSE]
Musketeer == [MiniChess EXCEPT !.name = "musketeer", !.commitGates = TRUE, !.castling = FALSE]
ThreeCheck == [MiniChess EXCEPT !.name = "3check", !.checkCounting = TRUE, !.castling = FALSE]
Fairy == [MiniChess EXCEPT !.name = "fairy", !.fastAttacks = FALSE, !.fastAttacks2 = TRUE,
                           !.castling = FALSE,
                           !.pieceTypes = {"PAWN", "KNIGHT", "ROOK", "FERS", "KING"},
                           !.promotionPieceTypes = {"FERS"}]

EmptyFen ==
    [pieces |-> <<>>, walls |-> <<>>, committed |-> <<>>, hand |-> <<>>, prison |-> <<>>,
     stm |-> "WHITE", castling |-> <<>>, ep |-> <<>>,
     checks |-> [c \in Colors |-> 0], rule50 |-> 0, fullmove |-> 1,
     points |-> [c \in Colors |-> 0]]

\* the positions the caller sets up: <<variant, parsed FEN>>
Scenarios ==
    { <<MiniChess, [EmptyFen EXCEPT
          !.pieces = << <<W("KING"), Sq(2, 0)>>, <<W("ROOK"), Sq(4, 0)>>, <<W("PAWN"), Sq(1, 1)>>,
                        <<B("KING"), Sq(2, 4)>>, <<B("PAWN"), Sq(2, 3)>>, <<B("KNIGHT"), Sq(0, 4)>> >>,
          !.castling = << <<"WHITE", "K">> >>]>>,
      <<MiniChess, [EmptyFen EXCEPT
          !.pieces = << <<W("KING"), Sq(0, 0)>>, <<W("ROOK"), Sq(1, 1)>>,
                        <<B("KING"), Sq(4, 4)>>, <<B("BISHOP"), Sq(3, 3)>> >>,
          !.walls = <<Sq(2, 2)>>, !.stm = "BLACK", !.rule50 = 3, !.fullmove = 7]>>,
      <<House, [EmptyFen EXCEPT
          !.pieces = << <<W("KING"), Sq(0, 0)>>, <<W("ROOK"), Sq(1, 0)>>,
                        <<B("KING"), Sq(4, 4)>>, <<B("KNIGHT"), Sq(1, 2)>>, <<B("PAWN"), Sq(4, 1)>> >>,
          !.hand = <<W("PAWN")>>]>>,
      <<Prison, [EmptyFen EXCEPT
          !.pieces = << <<W("KING"), Sq(0, 0)>>, <<W("PAWN"), Sq(1, 3)>>, <<W("QUEEN"), Sq(4, 0)>>,
                        <<B("KING"), Sq(2, 4)>>, <<B("ROOK"), Sq(4, 3)>> >>,
          !.stm = "BLACK"]>>,
      <<Musketeer, [EmptyFen EXCEPT
          !.pieces = << <<W("KING"), Sq(0, 0)>>, <<W("KNIGHT"), Sq(2, 0)>>,
                        <<B("KING"), Sq(4, 4)>>, <<B("ROOK"), Sq(2, 4)>> >>,
          !.committed = << <<W("QUEEN"), 2>>, <<B("BISHOP"), 2>> >>]>>,
      <<ThreeCheck, [EmptyFen EXCEPT
          !.pieces = << <<W("KING"), Sq(0, 0)>>, <<W("ROOK"), Sq(1, 1)>>,
                        <<B("KING"), Sq(4, 4)>>, <<B("KNIGHT"), Sq(3, 2)>> >>,
          !.checks = [c \in Colors |-> 3]]>>,
      <<Fairy, [EmptyFen EXCEPT
          !.pieces = << <<W("KING"), Sq(0, 0)>>, <<W("FERS"), Sq(1, 1)>>, <<W("PAWN"), Sq(3, 3)>>,
                        <<B("KING"), Sq(1, 4)>>, <<B("ROOK"), Sq(4, 2)>>, <<B("FERS"), Sq(2, 2)>> >>]>> }

\* ------------------------------------------------------ the state machine
\* the Position object as one value
Pos ==
    [var |-> var, board |-> board, byTypeBB |-> byTypeBB, byColorBB |-> byColorBB,
     pieceCount |-> pieceCount, pieceCountInHand |-> pieceCountInHand,
     pieceCountInPrison |-> pieceCountInPrison, promotedPieces |-> promotedPieces,
     committedGates |-> committedGates, castlingRightsMask |-> castlingRightsMask,
     castlingRookSquare |-> castlingRookSquare, castlingPath |-> castlingPath,
     pawnCannotCheckZone |-> pawnCannotCheckZone, sideToMove |-> sideToMove,
     gamePly |-> gamePly, st |-> st]

Becomes(p) ==
    /\ var' = p.var /\ board' = p.board /\ byTypeBB' = p.byTypeBB /\ byColorBB' = p.byColorBB
    /\ pieceCount' = p.pieceCount /\ pieceCountInHand' = p.pieceCountInHand
    /\ pieceCountInPrison' = p.pieceCountInPrison /\ promotedPieces' = p.promotedPieces
    /\ committedGates' = p.committedGates /\ castlingRightsMask' = p.castlingRightsMask
    /\ castlingRookSquare' = p.castlingRookSquare /\ castlingPath' = p.castlingPath
    /\ pawnCannotCheckZone' = p.pawnCannotCheckZone /\ sideToMove' = p.sideToMove
    /\ gamePly' = p.gamePly /\ st' = p.st
    /\ UNCHANGED <<cuckoo, cuckooMove, initLoop>>

\* the tables once Position::init() has returned: positions read them through
\* CuckooMove, which answers for every reversible move, so the slots are not kept
TablesReady ==
    /\ cuckoo = <<>> /\ cuckooMove = <<>>
    /\ initLoop = [pc |-> "returned"]

IsBoard(p) ==
    /\ var = p.var /\ board = p.board /\ byTypeBB = p.byTypeBB /\ byColorBB = p.byColorBB
    /\ pieceCount = p.pieceCount /\ pieceCountInHand = p.pieceCountInHand
    /\ pieceCountInPrison = p.pieceCountInPrison /\ promotedPieces = p.promotedPieces
    /\ committedGates = p.committedGates /\ castlingRightsMask = p.castlingRightsMask
    /\ castlingRookSquare = p.castlingRookSquare /\ castlingPath = p.castlingPath
    /\ pawnCannotCheckZone = p.pawnCannotCheckZone /\ sideToMove = p.sideToMove
    /\ gamePly = p.gamePly /\ st = p.st

IsPos(p) == IsBoard(p) /\ TablesReady

Init ==
    \E sc \in Scenarios :
        /\ IsPos(set(sc[1], sc[2]))
        /\ made = <<>>

DoMove ==
    /\ Len(made) < MaxPly
    /\ \E m \in LegalMoves(Pos) :
          /\ Becomes(do_move(Pos, m, gives_check(Pos, m)))
          /\ made' = Append(made, m)

UndoMove ==
    /\ made # <<>>
    /\ Becomes(undo_move(Pos, made[Len(made)]))
    /\ made' = SubSeq(made, 1, Len(made) - 1)

Next == DoMove \/ UndoMove

Spec == Init /\ [][Next]_vars

\* forward play only: the positions reachable by legal do_moves from set()
NextPlay == DoMove

SpecPlay == Init /\ [][NextPlay]_vars

\* bare kings and one more piece on a board of 3 files and 3 ranks, where
\* every move is reversible: the play that returns to earlier positions
Micro == [MiniChess EXCEPT !.name = "micro", !.maxFile = 2, !.maxRank = 2, !.castling = FALSE]
MicroFairy == [Micro EXCEPT !.name = "microfairy", !.fastAttacks = FALSE,
                            !.pieceTypes = {"PAWN", "KNIGHT", "ROOK", "FERS", "KING"}]
MicroLoss == [Micro EXCEPT !.name = "microloss", !.nFoldValue = "-VALUE_MATE"]

CycleScenarios ==
    { <<Micro, [EmptyFen EXCEPT
          !.pieces = << <<W("KING"), Sq(0, 0)>>, <<W("ROOK"), Sq(0, 1)>>,
                        <<B("KING"), Sq(2, 2)>> >>]>>,
      <<MicroFairy, [EmptyFen EXCEPT
          !.pieces = << <<W("KING"), Sq(0, 0)>>, <<W("FERS"), Sq(0, 1)>>,
                        <<B("KING"), Sq(2, 2)>> >>]>>,
      <<MicroLoss, [EmptyFen EXCEPT
          !.pieces = << <<W("KING"), Sq(0, 0)>>, <<B("KING"), Sq(2, 2)>> >>]>> }

InitCycle ==
    \E sc \in CycleScenarios :
        /\ IsPos(set(sc[1], sc[2]))
        /\ made = <<>>

DoMoveCycle ==
    /\ Len(made) < MaxCyclePly
    /\ \E m \in LegalMoves(Pos) :
          /\ Becomes(do_move(Pos, m, gives_check(Pos, m)))
          /\ made' = Append(made, m)

NextCycle == DoMoveCycle

SpecCycle == InitCycle /\ [][NextCycle]_vars

\* positions with several attackers and defenders of one square, x-ray
\* attackers behind them, a pinned attacker and kings among the attackers
SeeScenarios ==
    { <<MiniChess, [EmptyFen EXCEPT
          !.pieces = << <<W("KING"), Sq(4, 0)>>, <<W("PAWN"), Sq(1, 1)>>, <<W("KNIGHT"), Sq(0, 1)>>,
                        <<W("QUEEN"), Sq(2, 1)>>, <<W("ROOK"), Sq(2, 0)>>,
                        <<B("KING"), Sq(0, 4)>>, <<B("PAWN"), Sq(2, 2)>>, <<B("PAWN"), Sq(3, 3)>>,
                        <<B("BISHOP"), Sq(4, 4)>>, <<B("ROOK"), Sq(2, 4)>> >>]>>,
      <<MiniChess, [EmptyFen EXCEPT
          !.pieces = << <<W("KING"), Sq(0, 0)>>, <<W("ROOK"), Sq(2, 2)>>, <<W("PAWN"), Sq(2, 1)>>,
                        <<B("KING"), Sq(4, 3)>>, <<B("KNIGHT"), Sq(3, 2)>>, <<B("BISHOP"), Sq(4, 4)>>,
                        <<B("ROOK"), Sq(3, 4)>> >>]>>,
      <<Fairy, [EmptyFen EXCEPT
          !.pieces = << <<W("KING"), Sq(0, 0)>>, <<W("FERS"), Sq(1, 1)>>, <<W("ROOK"), Sq(2, 0)>>,
                        <<B("KING"), Sq(4, 4)>>, <<B("PAWN"), Sq(2, 2)>>, <<B("FERS"), Sq(3, 3)>>,
                        <<B("KNIGHT"), Sq(1, 4)>> >>]>> }

InitSee ==
    \E sc \in SeeScenarios :
        /\ IsPos(set(sc[1], sc[2]))
        /\ made = <<>>

DoMoveSee ==
    /\ Len(made) < MaxSeePly
    /\ \E m \in LegalMoves(Pos) :
          /\ Becomes(do_move(Pos, m, gives_check(Pos, m)))
          /\ made' = Append(made, m)

NextSee == DoMoveSee

SpecSee == InitSee /\ [][NextSee]_vars

\* standard chess on the board of 8 files and 8 ranks
Chess ==
    [MiniChess EXCEPT !.name = "chess", !.maxFile = 7, !.maxRank = 7,
                      !.castlingKingFile = 4, !.castlingKingsideFile = 6,
                      !.castlingQueensideFile = 2, !.castlingRookKingsideFile = 7,
                      !.castlingRookQueensideFile = 0,
                      !.promotionPieceTypes = {"QUEEN", "ROOK", "BISHOP", "KNIGHT"}]
\* chess where castling takes the opponent's right to castle on the same side
OppositeChess == [Chess EXCEPT !.name = "oppositecastling", !.oppositeCastling = TRUE]

BackRank == <<"ROOK", "KNIGHT", "BISHOP", "QUEEN", "KING", "BISHOP", "KNIGHT", "ROOK">>
AllRights == << <<"WHITE", "K">>, <<"WHITE", "Q">>, <<"BLACK", "K">>, <<"BLACK", "Q">> >>

\* rnbqkbnr/pppppppp/8/8/8/8/PPPPPPPP/RNBQKBNR w KQkq - 0 1
StartFen ==
    [EmptyFen EXCEPT
       !.pieces =    [i \in 1 .. 8 |-> <<B(BackRank[i]), Sq(i - 1, 7)>>]
                  \o [i \in 1 .. 8 |-> <<B("PAWN"), Sq(i - 1, 6)>>]
                  \o [i \in 1 .. 8 |-> <<W("PAWN"), Sq(i - 1, 1)>>]
                  \o [i \in 1 .. 8 |-> <<W(BackRank[i]), Sq(i - 1, 0)>>],
       !.castling = AllRights]

\* r3k2r/p6p/8/8/8/8/P6P/R3K2R w KQkq - 0 1
CastlingFen ==
    [EmptyFen EXCEPT
       !.pieces = << <<B("ROOK"), Sq(0, 7)>>, <<B("KING"), Sq(4, 7)>>, <<B("ROOK"), Sq(7, 7)>>,
                     <<B("PAWN"), Sq(0, 6)>>, <<B("PAWN"), Sq(7, 6)>>,
                     <<W("PAWN"), Sq(0, 1)>>, <<W("PAWN"), Sq(7, 1)>>,
                     <<W("ROOK"), Sq(0, 0)>>, <<W("KING"), Sq(4, 0)>>, <<W("ROOK"), Sq(7, 0)>> >>,
       !.castling = AllRights]

ChessScenarios == { <<Chess, StartFen>>, <<Chess, CastlingFen>>, <<OppositeChess, CastlingFen>> }

InitChess ==
    \E sc \in ChessScenarios :
        /\ IsPos(set(sc[1], sc[2]))
        /\ made = <<>>

DoMoveChess ==
    /\ Len(made) < MaxChessPly
    /\ \E m \in LegalMoves(Pos) :
          /\ Becomes(do_move(Pos, m, gives_check(Pos, m)))
          /\ made' = Append(made, m)

UndoMoveChess ==
    /\ made # <<>>
    /\ Becomes(undo_move(Pos, made[Len(made)]))
    /\ made' = SubSeq(made, 1, Len(made) - 1)

NextChess == DoMoveChess \/ UndoMoveChess

SpecChess == InitChess /\ [][NextChess]_vars

\* the kings are commoners, which may be captured: the side that loses its
\* last one has lost
Extinction ==
    [MiniChess EXCEPT !.name = "extinction", !.castling = FALSE,
                      !.fastAttacks = FALSE, !.fastAttacks2 = FALSE,
                      !.pieceTypes = {"PAWN", "KNIGHT", "BISHOP", "ROOK", "QUEEN", "COMMONER"},
                      !.extinctionValue = "-VALUE_MATE", !.extinctionPieceTypes = {"COMMONER"}]
\* the same, where the side that loses its last commoner king has won
ExtinctionWin == [Extinction EXCEPT !.name = "extinctionwin", !.extinctionValue = "VALUE_MATE"]
\* the same as Extinction, where a capture blasts the pieces around it
NoCheckAtomic == [Extinction EXCEPT !.name = "nocheckatomic", !.blastOnCapture = TRUE]

BlastFen ==
    [EmptyFen EXCEPT
       !.pieces = << <<W("COMMONER"), Sq(0, 0)>>, <<W("ROOK"), Sq(1, 0)>>, <<W("ROOK"), Sq(4, 0)>>,
                     <<B("COMMONER"), Sq(4, 4)>>, <<B("KNIGHT"), Sq(3, 3)>>,
                     <<B("KNIGHT"), Sq(1, 1)>> >>]

BlastScenarios == { <<Extinction, BlastFen>>, <<ExtinctionWin, BlastFen>>, <<NoCheckAtomic, BlastFen>> }

InitBlast ==
    \E sc \in BlastScenarios :
        /\ IsPos(set(sc[1], sc[2]))
        /\ made = <<>>

\* the game goes on until a rule of the variant ends it
DoMoveBlast ==
    /\ Len(made) < MaxBlastPly
    /\ ~is_immediate_game_end(Pos, Len(made)).end
    /\ \E m \in LegalMoves(Pos) :
          /\ Becomes(do_move(Pos, m, gives_check(Pos, m)))
          /\ made' = Append(made, m)

NextBlast == DoMoveBlast

SpecBlast == InitBlast /\ [][NextBlast]_vars

\* captures go to the capturer's prison, and the pieces in hand may be dropped
PrisonDrops ==
    [MiniChess EXCEPT !.name = "prisondrops", !.captureType = "PRISON", !.pieceDrops = TRUE,
                      !.castling = FALSE]

\* the positions whose text is written and read back
FenScenarios ==
    Scenarios \cup
    { <<PrisonDrops, [EmptyFen EXCEPT
          !.pieces = << <<W("KING"), Sq(0, 0)>>, <<W("ROOK"), Sq(1, 0)>>, <<W("PAWN"), Sq(3, 2)>>,
                        <<B("KING"), Sq(4, 4)>>, <<B("KNIGHT"), Sq(1, 2)>>, <<B("PAWN"), Sq(4, 1)>> >>,
          !.hand = <<B("PAWN")>>, !.prison = <<B("BISHOP")>>]>> }

InitFen ==
    \E sc \in FenScenarios :
        /\ IsPos(set(sc[1], sc[2]))
        /\ made = <<>>

DoMoveFen ==
    /\ Len(made) < MaxPly
    /\ \E m \in LegalMoves(Pos) :
          /\ Becomes(do_move(Pos, m, gives_check(Pos, m)))
          /\ made' = Append(made, m)

NextFen == DoMoveFen

SpecFen == InitFen /\ [][NextFen]_vars

\* gating from the hand: the pieces in hand enter on the squares the king and
\* the rooks leave
Seirawan == [MiniChess EXCEPT !.name = "seirawan", !.seirawanGating = TRUE, !.gating = TRUE]

GateScenarios ==
    { <<Seirawan, [EmptyFen EXCEPT
          !.pieces = << <<W("KING"), Sq(2, 0)>>, <<W("ROOK"), Sq(4, 0)>>, <<W("PAWN"), Sq(1, 1)>>,
                        <<B("KING"), Sq(2, 4)>>, <<B("ROOK"), Sq(0, 4)>>, <<B("PAWN"), Sq(3, 3)>> >>,
          !.hand = <<W("KNIGHT"), B("BISHOP")>>,
          !.castling = << <<"WHITE", "K">>, <<"BLACK", "Q">> >>]>>,
      <<Seirawan, [EmptyFen EXCEPT
          !.pieces = << <<W("KING"), Sq(2, 0)>>, <<W("ROOK"), Sq(4, 0)>>,
                        <<B("KING"), Sq(0, 0)>>, <<B("PAWN"), Sq(3, 3)>> >>,
          !.hand = <<W("KNIGHT"), W("BISHOP")>>,
          !.castling = << <<"WHITE", "K">> >>]>> }

InitGate ==
    \E sc \in GateScenarios :
        /\ IsPos(set(sc[1], sc[2]))
        /\ made = <<>>

DoMoveGate ==
    /\ Len(made) < MaxPly
    /\ \E m \in LegalMoves(Pos) :
          /\ Becomes(do_move(Pos, m, gives_check(Pos, m)))
          /\ made' = Append(made, m)

NextGate == DoMoveGate

SpecGate == InitGate /\ [][NextGate]_vars

\* the ways castling rights change: castling and rook moves, the opposite
\* castling rule, a rook dropped on its corner, a rook destroyed by a blast
DropCastle == [House EXCEPT !.name = "dropcastle", !.castling = TRUE,
                            !.castlingDroppedPiece = TRUE]
AtomicCastle == [NoCheckAtomic EXCEPT !.name = "atomiccastle", !.castling = TRUE,
                                      !.castlingKingPiece = "COMMONER"]
OppositeMini == [MiniChess EXCEPT !.name = "oppositemini", !.oppositeCastling = TRUE]

CastleScenarios ==
    { <<OppositeMini, [EmptyFen EXCEPT
          !.pieces = << <<W("KING"), Sq(2, 0)>>, <<W("ROOK"), Sq(4, 0)>>, <<W("ROOK"), Sq(0, 0)>>,
                        <<B("KING"), Sq(2, 4)>>, <<B("ROOK"), Sq(4, 4)>>, <<B("PAWN"), Sq(1, 3)>> >>,
          !.castling = << <<"WHITE", "K">>, <<"WHITE", "Q">>, <<"BLACK", "K">> >>]>>,
      <<DropCastle, [EmptyFen EXCEPT
          !.pieces = << <<W("KING"), Sq(2, 0)>>, <<W("PAWN"), Sq(1, 1)>>,
                        <<B("KING"), Sq(2, 4)>>, <<B("KNIGHT"), Sq(0, 4)>> >>,
          !.hand = <<W("ROOK")>>]>>,
      <<AtomicCastle, [EmptyFen EXCEPT
          !.pieces = << <<W("COMMONER"), Sq(2, 0)>>, <<W("ROOK"), Sq(4, 0)>>, <<W("PAWN"), Sq(4, 1)>>,
                        <<B("COMMONER"), Sq(0, 4)>>, <<B("ROOK"), Sq(4, 4)>> >>,
          !.stm = "BLACK", !.castling = << <<"WHITE", "K">> >>]>> }

InitCastle ==
    \E sc \in CastleScenarios :
        /\ IsPos(set(sc[1], sc[2]))
        /\ made = <<>>

DoMoveCastle ==
    /\ Len(made) < MaxPly
    /\ ~is_immediate_game_end(Pos, Len(made)).end
    /\ \E m \in LegalMoves(Pos) :
          /\ Becomes(do_move(Pos, m, gives_check(Pos, m)))
          /\ made' = Append(made, m)

NextCastle == DoMoveCastle

SpecCastle == InitCastle /\ [][NextCastle]_vars

\* --------------------------------------------------- connection games
\* the number of stones dropped on a board of stones
MaxConnectPly == 1

\* EAST, NORTH, NORTH_EAST, SOUTH_EAST: one direction of each line
HalfDirs == <<1, NORTH, NORTH + 1, 1 - NORTH>>

\* the eight steps of a king
AllDirs == HalfDirs \o <<0 - 1, 0 - NORTH, 0 - NORTH - 1, NORTH - 1>>

\* EAST, NORTH, WEST, SOUTH
OrthDirs == <<1, NORTH, 0 - 1, 0 - NORTH>>

\* a game of stones (ferses) dropped on a board without kings
Stones(name, maxFile, maxRank) ==
    [MiniChess EXCEPT !.name = name, !.maxFile = maxFile, !.maxRank = maxRank,
                      !.castling = FALSE, !.pieceDrops = TRUE, !.doubleStep = FALSE,
                      !.pieceTypes = {"FERS", "KNIGHT"}, !.connectPieceTypes = {"FERS"}]

\* White links the a-file to the c-file, Black the first rank to the third
RegionGame(name, dirs) ==
    [Stones(name, 2, 2) EXCEPT
        !.connectDirections = dirs,
        !.connectRegion1 = [c \in Colors |-> IF c = "WHITE" THEN {Sq(0, r) : r \in 0..2}
                                             ELSE {Sq(f, 0) : f \in 0..2}],
        !.connectRegion2 = [c \in Colors |-> IF c = "WHITE" THEN {Sq(2, r) : r \in 0..2}
                                             ELSE {Sq(f, 2) : f \in 0..2}]]

\* a group of n stones wins
GroupGame(name, maxFile, maxRank, n) ==
    [Stones(name, maxFile, maxRank) EXCEPT
        !.connectGroup = n, !.connectGroupDirections = OrthDirs]

\* several rules at once, with different results; castling wins in game 4,
\* two stones on a line win in game 5
ComboGame(k) ==
    [RegionGame("combo", HalfDirs) EXCEPT
        !.castlingWins = IF k = 4 THEN {"WHITE_OO", "BLACK_OO"} ELSE {},
        !.connectN = 3, !.connectNxN = 2,
        !.collinearN = IF k = 5 THEN 2 ELSE 3, !.connectGroup = 4,
        !.connectGroupDirections = OrthDirs, !.connectValue = "VALUE_MATE",
        !.flagPiece = "FERS",
        !.flagRegion = [c \in Colors |-> IF c = "WHITE" THEN {Sq(1, 1)} ELSE {}],
        !.adjudicateFullBoard = TRUE, !.nMoveHardLimitRule = 2,
        !.nMoveHardLimitRuleValue = "VALUE_MATE",
        !.extinctionValue = "VALUE_DRAW", !.extinctionPieceTypes = {"KNIGHT"},
        !.pointsCounting = TRUE, !.pointsGoal = 1, !.pointsGoalValue = "VALUE_DRAW",
        !.checkCounting = TRUE]

\* a FEN of stones: the stones of the side that just moved, those of the
\* side to move, and three stones in each hand
StonesFen(stm, movers, others) ==
    LET stones(c, sqs) == [i \in 1..Cardinality(sqs) |->
                             <<make_piece(c, "FERS"),
                               CHOOSE s \in sqs : Cardinality({t \in sqs : t < s}) = i - 1>>]
    IN  [EmptyFen EXCEPT
            !.pieces = stones(Flip(stm), movers) \o stones(stm, others),
            !.stm = stm,
            !.hand = << make_piece("WHITE", "FERS"), make_piece("WHITE", "FERS"),
                        make_piece("BLACK", "FERS"), make_piece("BLACK", "FERS") >>,
            !.checks = [c \in Colors |-> 1]]

\* the squares of a board of stones
BoardOf(maxFile, maxRank) == {Sq(f, r) : f \in 0..maxFile, r \in 0..maxRank}

\* the sets of two or three stones on a board of three files and three ranks
SmallBoards == {b \in SUBSET BoardOf(2, 2) : Cardinality(b) \in 2..3}

\* chains that wind over the board of three files and three ranks
Snakes ==
    { {Sq(0, 2), Sq(1, 2), Sq(1, 1), Sq(1, 0), Sq(2, 0)},
      {Sq(0, 0), Sq(1, 0), Sq(1, 1), Sq(1, 2), Sq(2, 2)},
      {Sq(0, 1), Sq(0, 2), Sq(1, 2), Sq(2, 1)},
      {Sq(0, 0), Sq(1, 0), Sq(0, 1), Sq(1, 1)},
      {Sq(0, 0), Sq(1, 0), Sq(0, 2), Sq(1, 2)},
      {Sq(0, 0), Sq(0, 1), Sq(0, 2), Sq(1, 2), Sq(2, 2), Sq(2, 1), Sq(2, 0)},
      {Sq(2, 0), Sq(1, 0), Sq(0, 0), Sq(0, 1), Sq(0, 2), Sq(1, 2), Sq(2, 2)} }

\* two stones of the side to move, which one more stone links to an edge
HalfChain == {Sq(0, 0), Sq(1, 1)}

\* stones at the two ends of the ranks of a board of eight files
EdgeBoards ==
    {b \in SUBSET {Sq(6, 0), Sq(7, 0), Sq(0, 1), Sq(1, 1), Sq(7, 1), Sq(0, 2)} :
        Cardinality(b) \in 2..3}

InitConnect ==
    /\ made = <<>>
    /\ \E stm \in Colors :
          \/ \E dirs \in {HalfDirs, AllDirs} : \E b \in SmallBoards \cup Snakes :
                IsPos(set(RegionGame("region", dirs), StonesFen(stm, b, {})))
          \/ \E dirs \in {HalfDirs, AllDirs} :
             \E b \in {x \in SmallBoards : Cardinality(x) = 2 /\ x \cap HalfChain = {}} :
                IsPos(set(RegionGame("region", dirs), StonesFen(stm, b, HalfChain)))
          \/ \E n \in {2, 3, -1} : \E b \in EdgeBoards :
                IsPos(set(GroupGame("group8", 7, 2, n), StonesFen(stm, b, {})))
          \/ \E n \in {3, -1} : \E b \in SmallBoards \cup Snakes :
                IsPos(set(GroupGame("group3", 2, 2, n), StonesFen(stm, b, {})))
          \* game 0 has no knight left, game 2 starts at the points goal,
          \* game 3 without a check left; the last boards are one drop from
          \* full and one drop from three in a row
          \/ \E k \in 0..5 :
             \E bo \in {<<b, {}>> : b \in SmallBoards \cup Snakes}
                      \cup {<<BoardOf(2, 2) \ {Sq(1, 0), Sq(1, 1)}, {Sq(1, 1)}>>,
                            <<{Sq(2, 0), Sq(2, 1)}, HalfChain>>} :
                IsPos(set(ComboGame(k),
                          [StonesFen(stm, bo[1], bo[2]) EXCEPT
                              !.hand = IF k = 0 THEN @
                                       ELSE @ \o << make_piece("WHITE", "KNIGHT"),
                                                    make_piece("BLACK", "KNIGHT") >>,
                              !.points = [c \in Colors |-> IF k = 2 THEN 1 ELSE 0],
                              !.checks = [c \in Colors |-> IF k = 3 THEN 0 ELSE 1]]))

\* a stone is dropped
DoMoveConnect ==
    /\ Len(made) < MaxConnectPly
    /\ \E m \in {x \in LegalMoves(Pos) : x.type = "DROP" /\ x.pt = "FERS"} :
          /\ Becomes(do_move(Pos, m, gives_check(Pos, m)))
          /\ made' = Append(made, m)

NextConnect == DoMoveConnect

SpecConnect == InitConnect /\ [][NextConnect]_vars

\* ---------------------------------------------------- check counting
\* the number of moves played from a check counting position
MaxCheckPly == 3

\* the checks each side has left at the start
CheckCounts == {1, 2}

InitCheck ==
    \E w, b \in CheckCounts :
        /\ IsPos(set(ThreeCheck, [EmptyFen EXCEPT
               !.pieces = << <<W("KING"), Sq(0, 0)>>, <<W("ROOK"), Sq(1, 1)>>,
                             <<B("KING"), Sq(4, 4)>>, <<B("KNIGHT"), Sq(2, 2)>> >>,
               !.checks = [c \in Colors |-> IF c = "WHITE" THEN w ELSE b]]))
        /\ made = <<>>

DoMoveCheck ==
    /\ Len(made) < MaxCheckPly
    /\ ~is_immediate_game_end(Pos, Len(made)).end
    /\ \E m \in LegalMoves(Pos) :
          /\ Becomes(do_move(Pos, m, gives_check(Pos, m)))
          /\ made' = Append(made, m)

NextCheck == DoMoveCheck

SpecCheck == InitCheck /\ [][NextCheck]_vars

\* ------------------------------------------------------- n-move rule
\* the number of moves played on from a position near the n-move limit
MaxNMovePly == 1

\* n_move_rule is 12 in the long games (the rule applies from rule50 = 24)
\* and 2 in the short games, which a chase offset of 20 can postpone
NMoveVariant(n, ch, mc, pr) ==
    [MiniChess EXCEPT !.name = "nmove", !.castling = FALSE, !.nMoveRule = n,
                      !.chasingRule = ch, !.materialCounting = mc, !.protocol = pr]

NMoveVariants ==
    { NMoveVariant(12, "NO_CHASING", FALSE, "UCI"),
      NMoveVariant(12, "AXF_CHASING", FALSE, "UCI"),
      NMoveVariant(12, "AXF_CHASING", TRUE, "UCCI"),
      NMoveVariant(2, "NO_CHASING", TRUE, "UCI"),
      NMoveVariant(2, "AXF_CHASING", FALSE, "UCI"),
      NMoveVariant(2, "AXF_CHASING", TRUE, "UCCI") }

\* the rook checks the king from a4 and a5 in turn, the king steps between
\* e5 and e4
ChaseFen ==
    [EmptyFen EXCEPT !.pieces = << <<W("KING"), Sq(0, 0)>>, <<W("ROOK"), Sq(0, 2)>>,
                                   <<B("KING"), Sq(4, 4)>> >>]

ChaseMove(i) ==
    CASE i = 1 -> Mv("NORMAL", Sq(0, 2), Sq(0, 4), "NO_PIECE_TYPE")
      [] i % 4 = 2 -> Mv("NORMAL", Sq(4, 4), Sq(4, 3), "NO_PIECE_TYPE")
      [] i % 4 = 3 -> Mv("NORMAL", Sq(0, 4), Sq(0, 3), "NO_PIECE_TYPE")
      [] i % 4 = 0 -> Mv("NORMAL", Sq(4, 3), Sq(4, 4), "NO_PIECE_TYPE")
      [] OTHER -> Mv("NORMAL", Sq(0, 3), Sq(0, 4), "NO_PIECE_TYPE")

\* the kings step to and fro without a check
QuietFen ==
    [EmptyFen EXCEPT !.pieces = << <<W("KING"), Sq(0, 0)>>, <<W("ROOK"), Sq(1, 2)>>,
                                   <<B("KING"), Sq(4, 4)>> >>]

QuietMove(i) ==
    CASE i % 4 = 1 -> Mv("NORMAL", Sq(0, 0), Sq(0, 1), "NO_PIECE_TYPE")
      [] i % 4 = 2 -> Mv("NORMAL", Sq(4, 4), Sq(4, 3), "NO_PIECE_TYPE")
      [] i % 4 = 3 -> Mv("NORMAL", Sq(0, 1), Sq(0, 0), "NO_PIECE_TYPE")
      [] OTHER -> Mv("NORMAL", Sq(4, 3), Sq(4, 4), "NO_PIECE_TYPE")

\* the rook mates from e5
MateFen ==
    [EmptyFen EXCEPT !.pieces = << <<W("KING"), Sq(0, 2)>>, <<W("ROOK"), Sq(4, 3)>>,
                                   <<B("KING"), Sq(0, 4)>> >>]

\* the lengths of the lines after which the choice of moves opens
LineLengths == {0, 20, 22, 24}

\* the halfmove clocks a FEN starts from
FenClocks == {0, 2, 3, 23, 24}

\* the moves made so far follow the line
OnLine(line(_), k) == k <= Len(made) /\ \A i \in 1..k : made[i] = line(i)

\* the number of moves of a line played before the first move chosen freely
BranchPoint ==
    CHOOSE k \in LineLengths :
        /\ OnLine(ChaseMove, k) \/ OnLine(QuietMove, k)
        /\ \A j \in LineLengths : (OnLine(ChaseMove, j) \/ OnLine(QuietMove, j)) => j <= k

InitNMove ==
    \E v \in NMoveVariants :
        /\ \/ IsPos(set(v, ChaseFen))
           \/ \E r \in FenClocks :
                 \/ IsPos(set(v, [MateFen EXCEPT !.rule50 = r]))
                 \/ IsPos(set(v, [QuietFen EXCEPT !.rule50 = r]))
        /\ made = <<>>

\* the next move of the line the game has followed from its start
DoLineMove ==
    /\ Len(made) < 24
    /\ \E m \in LegalMoves(Pos) :
          /\ \/ OnLine(ChaseMove, Len(made)) /\ m = ChaseMove(Len(made) + 1)
             \/ OnLine(QuietMove, Len(made)) /\ m = QuietMove(Len(made) + 1)
          /\ Becomes(do_move(Pos, m, gives_check(Pos, m)))
          /\ made' = Append(made, m)

\* any legal move, once a line has been left
DoMoveNMove ==
    /\ Len(made) - BranchPoint < MaxNMovePly
    /\ \E m \in LegalMoves(Pos) :
          /\ Becomes(do_move(Pos, m, gives_check(Pos, m)))
          /\ made' = Append(made, m)

NextNMove == DoLineMove \/ DoMoveNMove

SpecNMove == InitNMove /\ [][NextNMove]_vars

\* ------------------------------------------------------- full hands
\* the number of moves played from a position with a full hand
MaxHandPly == 1

\* the numbers of knights White holds in hand, around SQUARE_NB - 1
HandCounts == {0, 1, SQUARE_NB - 2, SQUARE_NB - 1, SQUARE_NB, SQUARE_NB + 1}

InitHand ==
    \E n \in HandCounts :
        /\ IsPos(set(House, [EmptyFen EXCEPT
               !.pieces = << <<W("KING"), Sq(2, 0)>>, <<W("ROOK"), Sq(0, 0)>>,
                             <<B("KING"), Sq(2, 4)>>, <<B("KNIGHT"), Sq(0, 4)>> >>,
               !.hand = [i \in 1..n |-> W("KNIGHT")]]))
        /\ made = <<>>

DoMoveHand ==
    /\ Len(made) < MaxHandPly
    /\ \E m \in LegalMoves(Pos) :
          /\ Becomes(do_move(Pos, m, gives_check(Pos, m)))
          /\ made' = Append(made, m)

NextHand == DoMoveHand

SpecHand == InitHand /\ [][NextHand]_vars

\* --------------------------------------------------- points counting
\* captures score for the capturing side; a captured bishop costs points
PointsUs == [MiniChess EXCEPT !.name = "pointsus", !.castling = FALSE,
                              !.pointsCounting = TRUE, !.pointsRuleCaptures = "POINTS_US",
                              !.piecePoints = [pt \in PieceTypes |->
                                                 CASE pt = "PAWN" -> 1 [] pt = "KNIGHT" -> 3
                                                   [] pt = "BISHOP" -> -4 [] pt = "ROOK" -> 5
                                                   [] OTHER -> 0],
                              !.pointsGoal = 1000]

\* atomic captures score for the owner of every piece removed
PointsOwnerAtomic == [NoCheckAtomic EXCEPT !.name = "pointsowneratomic",
                              !.pointsCounting = TRUE, !.pointsRuleCaptures = "POINTS_OWNER",
                              !.piecePoints = [pt \in PieceTypes |->
                                                 CASE pt = "PAWN" -> 1 [] pt = "KNIGHT" -> 3
                                                   [] pt = "BISHOP" -> -4 [] pt = "ROOK" -> 5
                                                   [] OTHER -> 0],
                              !.pointsGoal = 1000]

\* the number of moves played from a points position
MaxPointsPly == 2

\* the point totals a FEN starts from, around the ends of the key table
PointTotals == {-5, -1, 0, 508, 511, 512, 600}

PointsFens ==
    { <<PointsUs, [EmptyFen EXCEPT
          !.pieces = << <<W("KING"), Sq(0, 0)>>, <<W("ROOK"), Sq(3, 0)>>, <<W("PAWN"), Sq(1, 1)>>,
                        <<B("KING"), Sq(4, 4)>>, <<B("KNIGHT"), Sq(3, 3)>>,
                        <<B("BISHOP"), Sq(2, 2)>> >>]>>,
      <<PointsOwnerAtomic, [EmptyFen EXCEPT
          !.pieces = << <<W("COMMONER"), Sq(0, 0)>>, <<W("ROOK"), Sq(3, 0)>>,
                        <<W("PAWN"), Sq(1, 1)>>, <<W("KNIGHT"), Sq(4, 1)>>,
                        <<B("COMMONER"), Sq(4, 4)>>, <<B("KNIGHT"), Sq(3, 2)>>,
                        <<B("BISHOP"), Sq(2, 2)>> >>]>> }

\* a race to three points; what the goal is worth when both sides reach it
PointsRace(simul) ==
    [PointsUs EXCEPT !.name = "pointsrace", !.pointsGoal = 3,
                     !.pointsGoalValue = "VALUE_MATE", !.pointsGoalSimulValue = simul]

\* the point totals a race starts from
RaceTotals == {0, 2, 3, 5}

InitPoints ==
    \/ \E sc \in PointsFens : \E n \in PointTotals :
          /\ IsPos(set(sc[1], [sc[2] EXCEPT !.points = [c \in Colors |-> n]]))
          /\ made = <<>>
    \/ \E simul \in {"VALUE_DRAW", "VALUE_MATE"} : \E w, b \in RaceTotals :
          /\ IsPos(set(PointsRace(simul),
                       [(CHOOSE sc \in PointsFens : sc[1] = PointsUs)[2] EXCEPT
                           !.points = [c \in Colors |-> IF c = "WHITE" THEN w ELSE b]]))
          /\ made = <<>>

DoMovePoints ==
    /\ Len(made) < MaxPointsPly
    /\ ~is_immediate_game_end(Pos, Len(made)).end
    /\ \E m \in LegalMoves(Pos) :
          /\ Becomes(do_move(Pos, m, gives_check(Pos, m)))
          /\ made' = Append(made, m)

NextPoints == DoMovePoints

SpecPoints == InitPoints /\ [][NextPoints]_vars

\* the search: moves and null moves made and unmade
InitNull ==
    \E sc \in Scenarios :
        /\ IsPos(set(sc[1], sc[2]))
        /\ made = <<>>

DoMoveNull ==
    /\ Len(made) < MaxPly
    /\ \E m \in LegalMoves(Pos) :
          /\ Becomes(do_move(Pos, m, gives_check(Pos, m)))
          /\ made' = Append(made, m)

\* the search makes a null move only when the side to move is not in check
DoNullMove ==
    /\ Len(made) < MaxPly
    /\ ThisSt(Pos).checkersBB = {}
    /\ Becomes(do_null_move(Pos))
    /\ made' = Append(made, MOVE_NULL)

UndoNullMove ==
    /\ made # <<>> /\ made[Len(made)] = MOVE_NULL
    /\ Becomes(undo_null_move(Pos))
    /\ made' = SubSeq(made, 1, Len(made) - 1)

UndoMoveNull ==
    /\ made # <<>> /\ made[Len(made)] # MOVE_NULL
    /\ Becomes(undo_move(Pos, made[Len(made)]))
    /\ made' = SubSeq(made, 1, Len(made) - 1)

NextNull == DoMoveNull \/ DoNullMove \/ UndoNullMove \/ UndoMoveNull

SpecNull == InitNull /\ [][NextNull]_vars

\* the search on lines of reversible moves: moves and null moves, deep enough
\* for the backward walks of the chain to begin
MaxWalkPly == 6

MicroHand == [Micro EXCEPT !.name = "microhand", !.captureType = "HAND", !.pieceDrops = TRUE]

InitWalk ==
    \/ \E sc \in CycleScenarios :
          /\ IsPos(set(sc[1], sc[2]))
          /\ made = <<>>
    \/ \E v \in {Micro, MicroHand} :
          /\ IsPos(set(v, [EmptyFen EXCEPT
                 !.pieces = << <<W("KING"), Sq(0, 0)>>, <<B("KING"), Sq(2, 2)>> >>,
                 !.rule50 = 10]))
          /\ made = <<>>

DoMoveWalk ==
    /\ Len(made) < MaxWalkPly
    /\ \E m \in LegalMoves(Pos) :
          /\ Becomes(do_move(Pos, m, gives_check(Pos, m)))
          /\ made' = Append(made, m)

\* a null move is made when the side to move is not in check and the move
\* before was not a null move
DoNullMoveWalk ==
    /\ Len(made) < MaxWalkPly
    /\ ThisSt(Pos).checkersBB = {}
    /\ made # <<>> => made[Len(made)] # MOVE_NULL
    /\ Becomes(do_null_move(Pos))
    /\ made' = Append(made, MOVE_NULL)

NextWalk == DoMoveWalk \/ DoNullMoveWalk

SpecWalk == InitWalk /\ [][NextWalk]_vars

\* ------------------------------------------------- the by-catch record
\* the moves played where a move blasts or flanks the pieces around it
MaxBycatchPly == 2
\* the pieces counted on the board above which no further move is played
MaxBycatchPieces == 6

\* every move blasts the squares around its destination, and a side may pass
BlastMove == [Extinction EXCEPT !.name = "blastmove", !.blastOnMove = TRUE, !.pass = TRUE]
\* an enemy piece flanked on a file or a rank is taken, and a side may pass
Custodial ==
    [Extinction EXCEPT !.name = "custodial", !.surroundCaptureOpposite = TRUE, !.pass = TRUE,
                       !.connectDirections = OrthDirs]

BycatchFen ==
    [EmptyFen EXCEPT
       !.pieces = << <<W("COMMONER"), Sq(0, 0)>>, <<W("ROOK"), Sq(3, 0)>>, <<W("KNIGHT"), Sq(1, 2)>>,
                     <<B("COMMONER"), Sq(4, 4)>>, <<B("KNIGHT"), Sq(3, 3)>>,
                     <<B("ROOK"), Sq(1, 3)>> >>]

BycatchScenarios == { <<BlastMove, BycatchFen>>, <<Custodial, BycatchFen>> }

\* the pass of the side to move: its king, or its first piece, stays where it is
PassMoves(p) ==
    LET us == p.sideToMove
        ksq == IF piecesCT(p, us, {"KING"}) # {} THEN Lsb(piecesCT(p, us, {"KING"}))
               ELSE Lsb(piecesC(p, us))
    IN  IF p.var.pass /\ piecesC(p, us) # {}
        THEN {Mv("SPECIAL", ksq, ksq, "NO_PIECE_TYPE")}
        ELSE {}

\* the records a caller hands to do_move: a fresh one, or one of its stack
\* that still holds the by-catch of an earlier move
SuppliedRecords ==
    {ZeroSt} \cup
    {[ZeroSt EXCEPT !.unpromotedBycatch = [s \in {sq} |-> pc]] :
        sq \in {Sq(0, 1), Sq(1, 1)}, pc \in {B("KNIGHT")}}

InitBycatch ==
    \E sc \in BycatchScenarios :
        /\ IsPos(set(sc[1], sc[2]))
        /\ made = <<>>

DoMoveBycatch ==
    /\ Len(made) < MaxBycatchPly
    /\ pieceCount[W("ALL_PIECES")] + pieceCount[B("ALL_PIECES")] <= MaxBycatchPieces
    /\ \E m \in LegalMoves(Pos) \cup PassMoves(Pos) : \E newSt \in SuppliedRecords :
          /\ Becomes(do_move_into(Pos, m, newSt, gives_check(Pos, m)))
          /\ made' = Append(made, m)

UndoMoveBycatch ==
    /\ made # <<>>
    /\ Becomes(undo_move(Pos, made[Len(made)]))
    /\ made' = SubSeq(made, 1, Len(made) - 1)

NextBycatch == DoMoveBycatch \/ UndoMoveBycatch

SpecBycatch == InitBycatch /\ [][NextBycatch]_vars

\* ------------------------------------------------------------ walling
\* the moves played where every move places a wall square
MaxWallPly == 3

\* every move ends by putting the one duck on an empty square
Duck == [Micro EXCEPT !.name = "duck", !.wallingRule = "DUCK"]
\* every move leaves a wall on the square the piece came from
Past == [Micro EXCEPT !.name = "past", !.wallingRule = "PAST"]

WallFen ==
    [EmptyFen EXCEPT
       !.pieces = << <<W("KING"), Sq(0, 0)>>, <<W("KNIGHT"), Sq(1, 0)>>, <<B("KING"), Sq(2, 2)>> >>,
       !.walls = <<Sq(0, 2)>>]

WallScenarios == { <<Duck, WallFen>>, <<Past, WallFen>>,
                   <<Duck, [WallFen EXCEPT !.walls = <<>>, !.stm = "BLACK"]>> }

\* the moves of a walling variant: a move and the square of its wall, which
\* is empty once the piece has moved
WallingMoves(p, moves) ==
    LET b(m) == board_bb(p) \ (Xor(pieces(p), {m.from}) \cup {m.to})
        region(m) == IF p.var.wallingRule = "PAST" THEN b(m) \cap {m.from} ELSE b(m)
    IN  UNION {{[type |-> m.type, from |-> m.from, to |-> m.to, pt |-> m.pt, gsq |-> g] :
                   g \in region(m)} : m \in moves}

InitWall ==
    \E sc \in WallScenarios :
        /\ IsPos(set(sc[1], sc[2]))
        /\ made = <<>>

DoMoveWall ==
    /\ Len(made) < MaxWallPly
    /\ \E m \in WallingMoves(Pos, LegalMoves(Pos)) :
          /\ Becomes(do_move(Pos, m, gives_check(Pos, m)))
          /\ made' = Append(made, m)

UndoMoveWall ==
    /\ made # <<>>
    /\ Becomes(undo_move(Pos, made[Len(made)]))
    /\ made' = SubSeq(made, 1, Len(made) - 1)

NextWall == DoMoveWall \/ UndoMoveWall

SpecWall == InitWall /\ [][NextWall]_vars

\* ----------------------------------------------------------- en passant
\* the moves played on the board where pawns step one, two or three squares
MaxEpPly == 3

\* a board of 5 files and 6 ranks; a pawn is taken en passant on the files a
\* to d only
Tall ==
    [MiniChess EXCEPT !.name = "tall", !.maxRank = 5, !.castling = FALSE, !.tripleStep = TRUE,
                      !.enPassantRegion = {Sq(f, r) : f \in 0..3, r \in 0..5}]

TallFen ==
    [EmptyFen EXCEPT
       !.pieces = << <<W("KING"), Sq(0, 0)>>, <<W("PAWN"), Sq(1, 1)>>, <<W("PAWN"), Sq(3, 2)>>,
                     <<B("KING"), Sq(3, 5)>>, <<B("PAWN"), Sq(2, 4)>>, <<B("PAWN"), Sq(0, 4)>>,
                     <<B("PAWN"), Sq(0, 3)>>, <<B("PAWN"), Sq(4, 4)>> >>]

EpScenarios == { <<Tall, TallFen>>, <<Tall, [TallFen EXCEPT !.stm = "BLACK"]>> }

InitEp ==
    \E sc \in EpScenarios :
        /\ IsPos(set(sc[1], sc[2]))
        /\ made = <<>>

DoMoveEp ==
    /\ Len(made) < MaxEpPly
    /\ \E m \in LegalMoves(Pos) :
          /\ Becomes(do_move(Pos, m, gives_check(Pos, m)))
          /\ made' = Append(made, m)

UndoMoveEp ==
    /\ made # <<>>
    /\ Becomes(undo_move(Pos, made[Len(made)]))
    /\ made' = SubSeq(made, 1, Len(made) - 1)

NextEp == DoMoveEp \/ UndoMoveEp

SpecEp == InitEp /\ [][NextEp]_vars

\* ------------------------------------------------------ Position::init
\* the slots 0..MaxCuckooSlot are those the keys of the small tables hash to
MaxCuckooSlot == 2
\* the reversible moves inserted into the small tables
MaxCuckooEntries == 3

\* First and second hash functions for indexing the cuckoo tables
H1(h) == h % 8192
H2(h) == (h \div 65536) % 8192

\* the first reversible moves in the order of the loops over c, pc, s1 and s2:
\* those of the white knight
ReversibleMoves ==
    LET pairs == {x \in (0..MaxCuckooEntries) \X Squares :
                     /\ x[1] < x[2]
                     /\ x[2] \in attacks_bb("WHITE", "KNIGHT", x[1], {})}
        before(x) == {y \in pairs : y[1] < x[1] \/ (y[1] = x[1] /\ y[2] < x[2])}
    IN  [j \in 1..MaxCuckooEntries |->
            LET x == CHOOSE y \in pairs : Cardinality(before(y)) = j - 1
            IN  Mv("NORMAL", x[1], x[2], "NO_PIECE_TYPE")]

\* a value rng.rand<Key>() can give the key of the j-th move: any two slots
\* a and b for H1 and H2, and bits outside both masks that tell the keys apart
RandKey(j, a, b) == a + 8192 * j + 65536 * b

\* the slot a victim is pushed to
Alternative_first_slot(i, key) == H1(key)

Alternative(i, key) == IF i = H1(key) THEN H2(key) ELSE H1(key)

\* after the memsets: empty tables, the loops before their first move
InitCuckoo ==
    /\ IsBoard(ZeroPos(Chess)) /\ made = <<>>
    /\ cuckoo = [s \in 0..MaxCuckooSlot |-> 0]
    /\ cuckooMove = [s \in 0..MaxCuckooSlot |-> MOVE_NONE]
    /\ \E a, b \in [1..MaxCuckooEntries -> 0..MaxCuckooSlot] :
          initLoop = [pc |-> "for", count |-> 0, key |-> 0, move |-> MOVE_NONE, i |-> 0,
                      keys |-> [j \in 1..MaxCuckooEntries |-> RandKey(j, a[j], b[j])]]

\* the loops reach the next reversible move: its key is hashed
NextEntry ==
    /\ initLoop.pc = "for"
    /\ initLoop.count < MaxCuckooEntries
    /\ LET key == initLoop.keys[initLoop.count + 1]
       IN  initLoop' = [initLoop EXCEPT !.pc = "while", !.key = key,
                           !.move = ReversibleMoves[initLoop.count + 1], !.i = H1(key)]
    /\ UNCHANGED <<cuckoo, cuckooMove>>
    /\ UNCHANGED <<var, board, byTypeBB, byColorBB, pieceCount, pieceCountInHand,
                   pieceCountInPrison, promotedPieces, committedGates,
                   castlingRightsMask, castlingRookSquare, castlingPath,
                   pawnCannotCheckZone, sideToMove, gamePly, st, made>>

\* a pass that stores the entry and forgets the one it found in the slot
SwapEntry_overwrite ==
    /\ initLoop.pc = "while"
    /\ cuckoo' = [cuckoo EXCEPT ![initLoop.i] = initLoop.key]
    /\ cuckooMove' = [cuckooMove EXCEPT ![initLoop.i] = initLoop.move]
    /\ initLoop' = [initLoop EXCEPT !.pc = "for", !.count = @ + 1]
    /\ UNCHANGED <<var, board, byTypeBB, byColorBB, pieceCount, pieceCountInHand,
                   pieceCountInPrison, promotedPieces, committedGates,
                   castlingRightsMask, castlingRookSquare, castlingPath,
                   pawnCannotCheckZone, sideToMove, gamePly, st, made>>

\* one pass of while (true): the swaps, the test for the empty slot, the push
SwapEntry ==
    /\ initLoop.pc = "while"
    /\ LET i == initLoop.i
           key == cuckoo[i]
           move == cuckooMove[i]
       IN  /\ cuckoo' = [cuckoo EXCEPT ![i] = initLoop.key]
           /\ cuckooMove' = [cuckooMove EXCEPT ![i] = initLoop.move]
           /\ initLoop' =
                 IF move = MOVE_NONE
                 THEN [initLoop EXCEPT !.pc = "for", !.key = key, !.move = move,
                                       !.count = @ + 1]
                 ELSE [initLoop EXCEPT !.key = key, !.move = move,
                                       !.i = Alternative(i, key)]
    /\ UNCHANGED <<var, board, byTypeBB, byColorBB, pieceCount, pieceCountInHand,
                   pieceCountInPrison, promotedPieces, committedGates,
                   castlingRightsMask, castlingRookSquare, castlingPath,
                   pawnCannotCheckZone, sideToMove, gamePly, st, made>>

NextCuckoo == NextEntry \/ SwapEntry

SpecCuckoo == InitCuckoo /\ [][NextCuckoo]_vars

\* Position::init() runs on one thread from its first statement to its last
SpecCuckooFair == SpecCuckoo /\ WF_vars(NextCuckoo)

\* ------------------------------------------------------------ the claims
\* the Position the caller set up, when the position is one
IsSetUp == \E sc \in Scenarios : IsPos(set(sc[1], sc[2]))

\* C1: do_move(m) followed by undo_move(m) restores every observable field
\* of the Position: the square array, the bitboards, the piece counts, the
\* hands and prisons, the side to move, gamePly, the state pointer and, with
\* it, the keys and counters of the state record.
C1_UndoRestores ==
    \A m \in LegalMoves(Pos) : undo_move(do_move(Pos, m, gives_check(Pos, m)), m) = Pos

\* C2: the incrementally kept st->key equals the key set_state() computes
\* from scratch, in every position reached by legal do_moves from set().
C2_KeyIsFromScratch == ThisSt(Pos).key = set_state(Pos).key

\* C3: after do_move, materialKey, pawnKey, nonPawnMaterial and checkersBB
\* equal the values set_state() computes; after a capture materialKey is the
\* XOR of psq[pc][0 .. count - 1] over the remaining pieces.
C3_DerivedIsFromScratch ==
    /\ ThisSt(Pos).materialKey = set_state(Pos).materialKey
    /\ ThisSt(Pos).pawnKey = set_state(Pos).pawnKey
    /\ ThisSt(Pos).nonPawnMaterial = set_state(Pos).nonPawnMaterial
    /\ ThisSt(Pos).checkersBB = set_state(Pos).checkersBB

\* C4: n do_moves followed by n undo_moves in LIFO order return the state
\* pointer, gamePly and the Position to the original; gamePly is always the
\* original gamePly plus the number of moves made and not unmade.
C4_NestedUndoRestores ==
    /\ Len(st) = Len(made) + 1
    /\ \E sc \in Scenarios : sc[1] = var /\ gamePly = set(sc[1], sc[2]).gamePly + Len(made)
    /\ made = <<>> => IsSetUp

\* C5: the union of the colour bitboards equals pieces(), no square is
\* claimed by two piece types, and pieceCount of every piece equals the
\* population of its bitboard and the number of its entries in the board.
C5_BitboardsConsistent ==
    /\ byColorBB["WHITE"] \cup byColorBB["BLACK"] = byTypeBB["ALL_PIECES"]
    /\ byColorBB["WHITE"] \cap byColorBB["BLACK"] = {}
    /\ \A p1, p2 \in PieceTypes : p1 # p2 => byTypeBB[p1] \cap byTypeBB[p2] = {}
    /\ \A c \in Colors, pt \in PieceTypes :
          /\ pieceCount[make_piece(c, pt)] = Cardinality(byColorBB[c] \cap byTypeBB[pt])
          /\ pieceCount[make_piece(c, pt)] =
                Cardinality({s \in Squares : board[s] = make_piece(c, pt)})

\* the position after the legal move m
After(m) == do_move(Pos, m, gives_check(Pos, m))

\* the king of the side that moves is attacked in the position after m
KingAttackedAfter(m) ==
    attackers_to(After(m), KingSq(After(m), sideToMove), pieces(After(m)), Flip(sideToMove)) # {}

\* what legal() demands of an accepted move that is neither castling nor en
\* passant: a king's destination is not attacked, and no enemy piece other
\* than one on the destination attacks the king in the resulting occupancy
LegalMeansSafe(m) ==
    LET occupied == (IF m.type # "DROP" THEN Xor(pieces(Pos), {m.from}) ELSE pieces(Pos))
                    \cup {m.to}
    IN  m.type \notin {"CASTLING", "EN_PASSANT"} =>
            IF type_of(moved_piece(Pos, m)) = "KING"
            THEN attackers_to(Pos, m.to, occupied, Flip(sideToMove)) = {}
            ELSE attackers_to(Pos, KingSq(Pos, sideToMove), occupied, Flip(sideToMove))
                     \ {m.to} = {}

Plies == 0 .. (MaxCyclePly + 2)

\* the key of *st was seen before in the chain
ReturnsToSeenKey(p) == \E k \in 1 .. (Len(p.st) - 1) : p.st[k].key = ThisSt(p).key

\* how often the key of *st occurs in the chain, *st included
Occurrences(p) == Cardinality({k \in 1 .. Len(p.st) : p.st[k].key = ThisSt(p).key})

\* the number of plies back to the nearest earlier occurrence of the key of *st
Distance(p) == Abs(ThisSt(p).repetition)

\* C7 as stated: whenever a reversible move returns to a key seen before,
\* has_game_cycle(ply) before the move, st->repetition after it and the
\* n-fold walk of is_optional_game_end after it all report the cycle.
C7_ProbeAgreesWithWalk ==
    \A m \in LegalMoves(Pos) : \A ply \in Plies :
        ReturnsToSeenKey(After(m)) =>
            /\ has_game_cycle(Pos, ply)
            /\ ThisSt(After(m)).repetition # 0
            /\ is_optional_game_end(After(m), ply + 1).end

\* C7 amended: do_move records every return to a seen key in st->repetition;
\* the n-fold walk reports it when the earlier occurrence lies after the root
\* (ply beyond the distance); has_game_cycle(ply) reports it under the same
\* condition on ply when repetition is a draw in the variant and the move is
\* one of a knight, bishop, rook, queen or king, the pieces of the cuckoo
\* tables.
C7_ProbeAgreesAfterRoot ==
    \A m \in LegalMoves(Pos) :
        ReturnsToSeenKey(After(m)) =>
            /\ ThisSt(After(m)).repetition # 0
            /\ \A ply \in Plies :
                  ply + 1 > Distance(After(m)) =>
                      /\ is_optional_game_end(After(m), ply + 1).end
                      /\ (   /\ var.nFoldValue = "VALUE_DRAW"
                             /\ type_of(moved_piece(Pos, m)) \in CuckooPieceTypes
                          => has_game_cycle(Pos, ply))

\* a king move that returns to a position seen before is the next move
C7_Witness ==
    /\ var.nFoldValue = "VALUE_DRAW"
    /\ \E m \in LegalMoves(Pos) :
          /\ ReturnsToSeenKey(After(m))
          /\ type_of(moved_piece(Pos, m)) = "KING"
          /\ has_game_cycle(Pos, MaxCyclePly)

\* C8 as stated: with n_fold_rule = 3 and a draw as the n-fold value,
\* is_optional_game_end reports a draw at the third occurrence of a position
\* and not before, whatever ply the caller passes.
C8_ThreefoldAtThird ==
    (var.nFoldRule = 3 /\ var.nFoldValue = "VALUE_DRAW") =>
        \A ply \in Plies :
            /\ is_optional_game_end(Pos, ply).end <=> Occurrences(Pos) >= 3
            /\ is_optional_game_end(Pos, ply).end =>
                  is_optional_game_end(Pos, ply).result = "VALUE_DRAW"

\* C8 amended: the draw is reported at the third occurrence and not before
\* when the earlier occurrence is at or before the root (ply not beyond the
\* distance to it); when it lies strictly after the root the second
\* occurrence is already reported as a draw.
C8_ThreefoldAtOrBeforeRoot ==
    (var.nFoldRule = 3 /\ var.nFoldValue = "VALUE_DRAW") =>
        \A ply \in Plies :
            /\ is_optional_game_end(Pos, ply).end <=>
                  \/ Occurrences(Pos) >= 3
                  \/ Occurrences(Pos) = 2 /\ ply > Distance(Pos)
            /\ is_optional_game_end(Pos, ply).end =>
                  is_optional_game_end(Pos, ply).result = "VALUE_DRAW"

\* a third occurrence, reported to a caller at the root
C8_Witness ==
    /\ var.nFoldRule = 3 /\ var.nFoldValue = "VALUE_DRAW"
    /\ Occurrences(Pos) = 3
    /\ is_optional_game_end(Pos, 0).end

\* the occupancies probed: the board as it stands and with one piece lifted
Occupancies == {pieces(Pos)} \cup {pieces(Pos) \ {x} : x \in pieces(Pos)}

\* C9: for any occupancy, square and colour the general piece-type loop of
\* attackers_to and the fast path the variant claims (fastAttacks,
\* fastAttacks2) return identical bitboards.
C9_FastEqualsGeneral ==
    \A s \in board_bb(Pos) : \A c \in Colors : \A occ \in Occupancies :
        /\ var.fastAttacks =>
              attackers_fast(Pos, s, occ, c) = attackers_general(Pos, s, occ, c)
        /\ var.fastAttacks2 =>
              attackers_fast2(Pos, s, occ, c) = attackers_general(Pos, s, occ, c)

\* the thresholds a caller passes to see_ge: the piece values, their
\* differences and the values next to zero
Thresholds ==
    {-2538, -1276, -825, -781, -420, -126, -1, 0, 1, 126, 294, 420, 655, 699, 781, 825,
     1150, 1276, 2538}

\* the same placement read under a rule set with explosive captures
Atomic(p) == [p EXCEPT !.var.blastOnCapture = TRUE]

\* C10: see_ge is monotone in its threshold: for every move m and values
\* v' <= v, see_ge(m, v) implies see_ge(m, v').
C10_SeeMonotone ==
    \A m \in PseudoLegalMoves(Pos) : \A q \in {Pos, Atomic(Pos)} :
        \A a, b \in {<<v, see_ge(q, m, v)>> : v \in Thresholds} :
            (b[1] <= a[1] /\ a[2]) => b[2]

\* a capture whose exchange goes on for a recapture and is won at one
\* threshold and lost at a higher one
C10_Witness ==
    \E m \in PseudoLegalMoves(Pos) :
        /\ capture(Pos, m) /\ m.type = "NORMAL"
        /\ attackers_to(Pos, m.to, pieces(Pos), Flip(sideToMove)) # {}
        /\ see_ge(Pos, m, 0) /\ ~see_ge(Pos, m, 126)

\* the standard starting position, and the moves e2e4 and e7e5
StartPos == set(Chess, StartFen)
E2E4 == Mv("NORMAL", Sq(4, 1), Sq(4, 3), "NO_PIECE_TYPE")
E7E5 == Mv("NORMAL", Sq(4, 6), Sq(4, 4), "NO_PIECE_TYPE")

\* C11: from the standard starting position, after do_move of e2e4 and then
\* e7e5 the half-move clock is 0 and the full-move number fen() writes is 2,
\* and after undo_move of both moves the key is the key before either move.
C11_OpeningCounters ==
    (made = <<E2E4, E7E5>> /\ st[1] = StartPos.st[1]) =>
        /\ ThisSt(Pos).rule50 = 0
        /\ fen(Pos, FALSE).rule50 = 0
        /\ fen(Pos, FALSE).fullmove = 2
        /\ ThisSt(undo_move(undo_move(Pos, E7E5), E2E4)).key = StartPos.st[1].key

\* the two moves were made from the standard starting position
C11_Witness ==
    /\ made = <<E2E4, E7E5>> /\ st[1] = StartPos.st[1]
    /\ piece_on(Pos, Sq(4, 3)) = W("PAWN") /\ piece_on(Pos, Sq(4, 4)) = B("PAWN")

\* White's king-side castling moves, when White has both castling rights
KingSideCastlings ==
    IF sideToMove = "WHITE" /\ ColorRights("WHITE") \subseteq ThisSt(Pos).castlingRights
    THEN {m \in LegalMoves(Pos) : m.type = "CASTLING" /\ m.to > m.from}
    ELSE {}

\* C12: from a position where White has both castling rights, after White's
\* king-side castling can_castle reports White's queen-side right as revoked,
\* with oppositeCastling Black's king-side right is removed by the same move,
\* and the key's castling component is switched from the old rights value to
\* the new one.
C12_CastlingRevokesRights ==
    \A m \in KingSideCastlings :
        LET old == ThisSt(Pos).castlingRights
            new == ThisSt(After(m)).castlingRights
            castlingAtoms(k) == {a \in k : a[1] = "castling"}
        IN  /\ ~can_castle(After(m), {"WHITE_OOO"})
            /\ var.oppositeCastling => ~can_castle(After(m), {"BLACK_OO"})
            /\ new # old
            /\ castlingAtoms(ThisSt(Pos).key) = ZCastling(old)
            /\ castlingAtoms(ThisSt(After(m)).key) = ZCastling(new)

\* White may castle king-side with both rights, where Black still has the
\* king-side right that oppositeCastling takes
C12_Witness ==
    /\ KingSideCastlings # {}
    /\ var.oppositeCastling
    /\ can_castle(Pos, {"BLACK_OO"})

\* the king type of the variant: the commoner that stands for the king
KingType == "COMMONER"

\* the last move took the last king of one side, and the other side has a king
LastKingCaptured ==
    /\ var.extinctionPieceTypes = {KingType} /\ var.extinctionPieceCount = 0
    /\ made # <<>> /\ ThisSt(Pos).capturedPiece # NO_PIECE
    /\ \E c \in Colors : count(Pos, c, KingType) = 0 /\ count(Pos, Flip(c), KingType) > 0

\* the result, seen from the side to move, that favours the side with a king
FavoursKingSide ==
    IF count(Pos, sideToMove, KingType) > 0 THEN "VALUE_MATE" ELSE "-VALUE_MATE"

\* C13: with the king type an extinction piece type and extinctionPieceCount
\* 0, once the opponent's last king has been captured is_immediate_game_end
\* returns true with a result in favour of the side still possessing a king.
C13_ExtinctionFavoursKing ==
    LastKingCaptured =>
        /\ is_immediate_game_end(Pos, Len(made)).end
        /\ is_immediate_game_end(Pos, Len(made)).result = FavoursKingSide

\* C13, amended: the game ends, the result is the extinction value of the
\* variant for the side without a king, and where that value is a loss
\* (-VALUE_MATE) it favours the side still possessing a king.
C13_ExtinctionValueForKingless ==
    LastKingCaptured =>
        /\ is_immediate_game_end(Pos, Len(made)).end
        /\ var.extinctionValue = "-VALUE_MATE" =>
               is_immediate_game_end(Pos, Len(made)).result = FavoursKingSide
        /\ is_immediate_game_end(Pos, Len(made)).result =
               IF count(Pos, sideToMove, KingType) = 0 THEN var.extinctionValue
               ELSE Negate(var.extinctionValue)

\* Black's last king was captured in the variant where extinction loses
C13_Witness ==
    /\ LastKingCaptured
    /\ var.extinctionValue = "-VALUE_MATE"
    /\ count(Pos, "BLACK", KingType) = 0 /\ sideToMove = "BLACK"

\* the position set() builds from the text fen() writes
RoundTrip(p, showPromoted) == set(p.var, fen(p, showPromoted))

\* the same pieces and wall squares on the same squares
SameBoard(p, q) ==
    /\ p.board = q.board /\ p.byTypeBB = q.byTypeBB /\ p.byColorBB = q.byColorBB
    /\ p.pieceCount = q.pieceCount
    /\ ThisSt(p).wallSquares = ThisSt(q).wallSquares

\* the same side to move, rights, hands and counters
SameRightsAndCounters(p, q) ==
    /\ p.sideToMove = q.sideToMove
    /\ ThisSt(p).castlingRights = ThisSt(q).castlingRights
    /\ ThisSt(p).epSquares = ThisSt(q).epSquares
    /\ p.pieceCountInHand = q.pieceCountInHand
    /\ ThisSt(p).checksRemaining = ThisSt(q).checksRemaining
    /\ ThisSt(p).rule50 = ThisSt(q).rule50
    /\ p.gamePly = q.gamePly

WritesHoldings == (var.pieceDrops \/ var.seirawanGating) /\ ~var.commitGates

C15_NullMoveRoundTrip ==
    ThisSt(Pos).checkersBB = {} =>
        /\ do_null_move(Pos).sideToMove = Flip(sideToMove)
        /\ [do_null_move(Pos) EXCEPT !.st = st, !.sideToMove = sideToMove] = Pos
        /\ ThisSt(do_null_move(Pos)).epSquares = {}
        /\ ThisSt(do_null_move(Pos)).pliesFromNull = 0
        /\ ThisSt(do_null_move(Pos)).repetition = 0
        /\ ThisSt(do_null_move(Pos)).key =
               Xor(Xor(ThisSt(Pos).key, ZSide),
                   UNION {ZEnpassant(file_of(s)) : s \in ThisSt(Pos).epSquares})
        /\ SubSeq(do_null_move(Pos).st, 1, Len(st)) = st
        /\ undo_null_move(do_null_move(Pos)) = Pos

\* a null move was made in a position with an en passant square
C15_Witness ==
    /\ made # <<>> /\ made[Len(made)] = MOVE_NULL
    /\ st[Len(st) - 1].epSquares # {}
    /\ ThisSt(Pos).epSquares = {}

\* the irreversible moves: a capture, a drop, a promotion, or a move of an
\* n-move-rule piece type that cannot move back to its origin square
Irreversible(p, m) ==
    \/ m.type = "EN_PASSANT"
    \/ m.type \notin {"CASTLING", "DROP"} /\ ~empty(p, m.to)
    \/ m.type = "DROP"
    \/ m.type = "PROMOTION"
    \/ /\ m.type # "CASTLING"
       /\ type_of(piece_on(p, m.from)) \in p.var.nMoveRuleTypes
       /\ m.from \notin PseudoMoves(p.sideToMove, type_of(piece_on(p, m.from)), m.to)

RepeatDistances ==
    LET end == IF Pos.var.captureType # "MOVE_OUT" THEN ThisSt(Pos).pliesFromNull
               ELSE Min(ThisSt(Pos).rule50, ThisSt(Pos).pliesFromNull)
    IN  {i \in 4..end : i % 2 = 0 /\ i < Len(st) /\ st[Len(st) - i].key = ThisSt(Pos).key}

SmallestRepeatDistance == CHOOSE i \in RepeatDistances : \A j \in RepeatDistances : i <= j

\* C17: after do_move, st->repetition is 0 when no earlier state record at an
\* even ply distance i with 4 <= i <= end has the same key (end is
\* pliesFromNull when captures go to hand, otherwise min(rule50,
\* pliesFromNull)); otherwise its magnitude is the smallest such distance, and
\* it is negative exactly when that earlier record's own repetition field is
\* non-zero.
C17_RepetitionDistance ==
    /\ ThisSt(Pos).pliesFromNull < Len(st)
    /\ IF RepeatDistances = {} THEN ThisSt(Pos).repetition = 0
       ELSE /\ Abs(ThisSt(Pos).repetition) = SmallestRepeatDistance
            /\ ThisSt(Pos).repetition < 0
                   <=> st[Len(st) - SmallestRepeatDistance].repetition # 0

\* a position has repeated a position that was itself a repetition
C17_Witness ==
    /\ made # <<>>
    /\ ThisSt(Pos).repetition < 0
    /\ st[Len(st) + ThisSt(Pos).repetition].repetition > 0

\* the last move sent a piece to prison or promoted a pawn to a piece taken
\* out of prison
LastMoveChangedPrison ==
    /\ made # <<>>
    /\ var.captureType = "PRISON"
    /\ \/ ThisSt(Pos).capturedPiece # NO_PIECE
       \/ var.prisonPawnPromotion /\ made[Len(made)].type = "PROMOTION"

\* C19: the hash key contains a contribution for each piece type's prison
\* count: after a capture that sends a piece to prison, and after a prison
\* pawn promotion, the incrementally updated key equals the key set_state()
\* computes for the resulting position.
C19_PrisonKeyIsFromScratch ==
    LastMoveChangedPrison => ThisSt(Pos).key = set_state(Pos).key

\* the last move gated a piece from the hand onto the board
LastMoveGated == made # <<>> /\ is_gating(made[Len(made)])

\* C20: when a move gates a piece from the hand onto the board, do_move
\* updates the key and the material key for every fact that changed, the new
\* occupant of the gate square and the reduced in-hand count of the gated
\* piece type, so that key and materialKey equal what set_state() computes for
\* the resulting position.
C20_GatingKeysAreFromScratch ==
    LastMoveGated =>
        /\ ThisSt(Pos).key = set_state(Pos).key
        /\ ThisSt(Pos).materialKey = set_state(Pos).materialKey

\* the pieces of the mover that attack the opponent's king once m is made
CheckersAfter(m) ==
    set_state(do_move(Pos, m, gives_check(Pos, m))).checkersBB

\* C18: gives_check(m) agrees with the resulting position: for every move m,
\* gives_check(m) is true if and only if after do_move(m) the opponent's king
\* is attacked by a piece of the mover, so that the checkers bitboard stored by
\* do_move is non-empty exactly when givesCheck is true and equals the
\* from-scratch attackers of the king.
C18_GivesCheckAgrees ==
    \A m \in LegalMoves(Pos) :
        /\ gives_check(Pos, m) <=> CheckersAfter(m) # {}
        /\ ThisSt(do_move(Pos, m, gives_check(Pos, m))).checkersBB = CheckersAfter(m)

\* the castling terms of the key
CastlingTerms(key) == {a \in key : a[1] = "castling"}

\* C21: every change do_move makes to st->castlingRights (rights removed
\* because a king or rook square is moved from or captured on, by the
\* oppositeCastling rule, or because a blast destroys a castling piece, and
\* rights granted by dropping a castling king or rook on its castling square)
\* is mirrored in the key, which holds Zobrist::castling of the rights in force.
C21_CastlingRightsInKey ==
    CastlingTerms(ThisSt(Pos).key) = ZCastling(ThisSt(Pos).castlingRights)


\* ------------------------------------------------------------- points
\* the points terms of a key
PointsTerms(key) == {a \in key : a[1] = "points"}

\* the last move changed a points total
LastMoveChangedPoints ==
    /\ made # <<>>
    /\ ThisSt(Pos).pointsCount # Pos.st[Len(Pos.st) - 1].pointsCount

\* C22: the points part of the key that do_move maintains is, after every
\* move, the points part of the key that set_state computes for the totals
\* reached: an own bucket for a total in [0, 511], bucket 511 for a total of
\* 512 or more, nothing for a negative total
C22_PointsKeyIsFromScratch ==
    made # <<>> =>
        /\ PointsTerms(ThisSt(Pos).key) = PointsTerms(set_state(Pos).key)
        /\ \A c \in Colors :
              LET n == ThisSt(Pos).pointsCount[c]
              IN  {a \in PointsTerms(ThisSt(Pos).key) : a[2] = c}
                  = IF n < 0 THEN {}
                    ELSE IF n >= MAX_ZOBRIST_POINTS THEN ZPoints(c, MAX_ZOBRIST_POINTS - 1)
                    ELSE ZPoints(c, n)

\* a move took a total from the table's range to 512 or more
C22_Witness ==
    /\ LastMoveChangedPoints
    /\ \E c \in Colors :
          /\ Pos.st[Len(Pos.st) - 1].pointsCount[c] < MAX_ZOBRIST_POINTS
          /\ ThisSt(Pos).pointsCount[c] >= MAX_ZOBRIST_POINTS

\* ------------------------------------------------------------ in hand
\* the in-hand terms of a key
HandTerms(key) == {a \in key : a[1] = "inHand"}

\* the last move put a piece into a hand or dropped one from it
LastMoveChangedHand ==
    /\ made # <<>>
    /\ \/ made[Len(made)].type = "DROP"
       \/ ThisSt(Pos).capturedPiece # NO_PIECE

\* C23: after a capture to hand and after a drop, the in-hand terms of the
\* key that do_move maintains are those set_state computes from the hand
\* counts clamped to [0, SQUARE_NB - 1], whatever the hand count was
C23_HandKeyIsFromScratch ==
    LastMoveChangedHand => HandTerms(ThisSt(Pos).key) = HandTerms(set_state(Pos).key)

\* -------------------------------------------------------- n-move rule
\* the positions in check among those at the given distances behind Pos
ChecksBehind(distances) ==
    Cardinality({i \in distances : Pos.st[Len(Pos.st) - i].checkersBB # {}})

\* the chase offset, counted over the plies since the last irreversible move
ChaseOffset ==
    LET si == ThisSt(Pos)
        end == Min(si.rule50, si.pliesFromNull)
        even == {i \in 0..(end - 1) : i % 2 = 0}
        most == Max(ChecksBehind(even), ChecksBehind({i + 1 : i \in even}))
    IN  IF Pos.var.chasingRule = "AXF_CHASING" /\ si.pliesFromNull >= 20
        THEN 2 * Max(most - 10, 0)
             + (IF Pos.var.protocol \in {"UCCI", "UCI_CYCLONE"} THEN 20 ELSE 0)
        ELSE 0

\* the side to move is in check and has no legal move
Stuck == ThisSt(Pos).checkersBB # {} /\ LegalMoves(Pos) = {}

\* C24: is_optional_game_end reports the n-move rule (a draw, or the result
\* of material counting) exactly when an n-move rule is configured, rule50
\* less the chase offset exceeds 2 * n_move_rule - 1 and the side to move is
\* not in check without a legal move; never while rule50 <= 2 * n_move_rule - 1
C24_NMoveRule ==
    LET n == Pos.var.nMoveRule
        over == n > 0 /\ ThisSt(Pos).rule50 - ChaseOffset > 2 * n - 1
    IN  /\ NMoveRule(Pos, 0).end <=> (over /\ ~Stuck)
        /\ (over /\ ~Stuck) =>
              is_optional_game_end(Pos, 0) =
                  [end |-> TRUE,
                   result |-> IF Pos.var.materialCounting THEN "MATERIAL_COUNTING"
                              ELSE "VALUE_DRAW"]
        /\ ThisSt(Pos).rule50 <= 2 * n - 1 => ~NMoveRule(Pos, 0).end

\* the rule is reported after a chase whose offset is not zero
C24_Witness ==
    /\ made # <<>>
    /\ ChaseOffset > 0
    /\ NMoveRule(Pos, 0).end

\* -------------------------------------------------------- points goal
\* the side has reached the points goal
ReachedGoal(c) == ThisSt(Pos).pointsCount[c] >= Pos.var.pointsGoal

\* C26: the points-goal result is given from the side to move's view: if
\* only the side that just moved reached the goal, the negation of
\* pointsGoalValue; if only the side to move did, pointsGoalValue; if both
\* did, a draw when the totals are equal or pointsGoalSimulValue is a draw,
\* and otherwise pointsGoalSimulValue for the side with more points
C26_PointsGoalOrientation ==
    LET stm == Pos.sideToMove
        pts == ThisSt(Pos).pointsCount
        res == is_immediate_game_end(Pos, Len(made)).result
    IN  (Pos.var.pointsCounting /\ (ReachedGoal("WHITE") \/ ReachedGoal("BLACK"))) =>
            res = IF ~ReachedGoal(stm) THEN Negate(Pos.var.pointsGoalValue)
                  ELSE IF ~ReachedGoal(Flip(stm)) THEN Pos.var.pointsGoalValue
                  ELSE IF pts[stm] = pts[Flip(stm)] \/ Pos.var.pointsGoalSimulValue = "VALUE_DRAW"
                  THEN "VALUE_DRAW"
                  ELSE IF pts[stm] > pts[Flip(stm)] THEN Pos.var.pointsGoalSimulValue
                  ELSE Negate(Pos.var.pointsGoalSimulValue)

\* ------------------------------------------------------ check counting
\* C27: under check counting a move made with givesCheck takes one from the
\* mover's checksRemaining and leaves the opponent's, a move without leaves
\* both; no count is negative in a game that stops at its end; and
\* is_immediate_game_end gives mated_in(ply) to the side to move once the
\* side that just moved has no check left
C27_CheckCounting ==
    /\ [](var.checkCounting =>
            /\ \A c \in Colors : ThisSt(Pos).checksRemaining[c] >= 0
            /\ ThisSt(Pos).checksRemaining[Flip(sideToMove)] = 0 =>
                  is_immediate_game_end(Pos, Len(made)) = [end |-> TRUE, result |-> "-VALUE_MATE"])
    /\ [][var.checkCounting =>
            st'[Len(st')].checksRemaining =
                IF gives_check(Pos, made'[Len(made')])
                THEN [ThisSt(Pos).checksRemaining EXCEPT ![sideToMove] = @ - 1]
                ELSE ThisSt(Pos).checksRemaining]_vars

\* a side has given its last check
C27_Witness ==
    /\ made # <<>>
    /\ ThisSt(Pos).checkersBB # {}
    /\ ThisSt(Pos).checksRemaining[Flip(sideToMove)] = 0

\* --------------------------------------------------- region connection
\* square t is one step of a configured direction from square s on the board
StepAlong(s, t, dirs) ==
    \E df \in {-1, 0, 1} : \E dr \in {-1, 0, 1} :
        /\ df + FILE_NB * dr \in DirSet(dirs)
        /\ file_of(t) = file_of(s) + df /\ rank_of(t) = rank_of(s) + dr
        /\ t \in board_bb(Pos) /\ s \in board_bb(Pos)

\* the squares of stones a chain from s leads to: the least set of stones
\* that holds s and every stone one step from a stone of it
ChainFrom(s, stones, dirs) ==
    LET closed(X) == s \in X /\ \A a \in X : \A b \in stones : StepAlong(a, b, dirs) => b \in X
    IN  {t \in stones : \A X \in SUBSET stones : closed(X) => t \in X}

\* a chain of connect pieces of the side that just moved links its regions
ChainLinksRegions ==
    LET them == Flip(sideToMove)
        stones == ConnectPieces(Pos)
    IN  \E s \in Pos.var.connectRegion1[them] \cap stones :
            ChainFrom(s, stones, Pos.var.connectDirections)
            \cap Pos.var.connectRegion2[them] # {}

\* the run of the expansion loop on the position
RegionRun ==
    RegionLoop(Pos, Pos.var.connectRegion2[Flip(sideToMove)],
               Pos.var.connectRegion1[Flip(sideToMove)] \cap ConnectPieces(Pos), 0)

\* C28: is_immediate_game_end reports a region connection won by the side
\* that just moved exactly when a chain of its connect pieces, each one step
\* of a configured direction from the one before, leads from a piece in its
\* first region to a piece in its second; the expansion loop ends after at
\* most one sweep per piece and one more
C28_RegionConnection ==
    Pos.var.name = "region" =>
        /\ ConnectRegion(Pos) <=> ChainLinksRegions
        /\ is_immediate_game_end(Pos, Len(made)) =
              IF ChainLinksRegions THEN End(Negate(Pos.var.connectValue)) ELSE NoEnd
        /\ RegionRun.loops <= Cardinality(ConnectPieces(Pos)) + 1

\* a connection found only by a second sweep of the loop, after a drop
C28_Witness ==
    /\ made # <<>>
    /\ Pos.var.name = "region"
    /\ ConnectRegion(Pos)
    /\ RegionRun.loops >= 2

\* ------------------------------------------------------ connected group
\* the pieces of the side that just moved
MoverPieces == piecesC(Pos, Flip(sideToMove))

\* the size a group must reach
GroupTarget ==
    IF Pos.var.connectGroup = -1 THEN Cardinality(MoverPieces) ELSE Pos.var.connectGroup

\* some group of pieces of the side that just moved, linked through squares
\* next to each other on the board, has the size asked for
GroupOnBoard ==
    /\ Pos.var.connectGroup # 0 /\ GroupTarget > 0
    /\ \E s \in MoverPieces :
          Cardinality(ChainFrom(s, MoverPieces, getConnectDirections(Pos))) >= GroupTarget

\* C29: is_immediate_game_end reports a connected group won by the side that
\* just moved exactly when some group of its pieces, linked through squares
\* adjacent on the board along the configured directions (never across two
\* opposite edges), has at least connect_group pieces, or all of its pieces
\* when connect_group is -1
C29_ConnectedGroup ==
    Pos.var.name \in {"group8", "group3"} =>
        /\ ConnectGroup(Pos) <=> GroupOnBoard
        /\ is_immediate_game_end(Pos, Len(made)) =
              IF GroupOnBoard THEN End(Negate(Pos.var.connectValue)) ELSE NoEnd

\* ----------------------------------------------- order of the end rules
\* the rules of is_immediate_game_end in their order of precedence
EndRules ==
    << ExtinctionEnd(Pos), FlagEnd(Pos), CastlingEnd(Pos), CheckCountEnd(Pos),
       PointsGoalEnd(Pos), ConnectNEnd(Pos), ConnectRegionEnd(Pos), ConnectNxNEnd(Pos),
       CollinearNEnd(Pos), ConnectGroupEnd(Pos), FullBoardEnd(Pos), HardLimitEnd(Pos),
       VirtualEnd(Pos) >>

\* the rules that hold in the position
RulesHolding == {i \in 1..Len(EndRules) : EndRules[i].end}

Filled == initLoop.pc = "for" /\ initLoop.count = MaxCuckooEntries

\* the keys can all be stored, each in one of its two slots
Placeable ==
    \E f \in [1..MaxCuckooEntries -> 0..MaxCuckooSlot] :
        /\ \A j, k \in 1..MaxCuckooEntries : j # k => f[j] # f[k]
        /\ \A j \in 1..MaxCuckooEntries :
              f[j] \in {H1(initLoop.keys[j]), H2(initLoop.keys[j])}

InsertedMoves ==
    {x \in Colors \X CuckooPieceTypes \X Squares \X Squares :
        x[3] < x[4] /\ x[4] \in attacks_bb(x[1], x[2], x[3], {})}

\* C31: once Position::init() has gone through its loops, every inserted move
\* is in the table exactly once, with its move, at H1 or H2 of its key, and the
\* loops insert 3668 moves
C31_TableHoldsEveryMove ==
    /\ Cardinality(InsertedMoves) = 3668
    /\ \A j \in 1..MaxCuckooEntries :
          ReversibleMoves[j] \in {Mv("NORMAL", x[3], x[4], "NO_PIECE_TYPE") : x \in InsertedMoves}
    /\ Filled =>
          \A j \in 1..MaxCuckooEntries :
             LET key == initLoop.keys[j]
             IN  /\ Cardinality({s \in 0..MaxCuckooSlot : cuckoo[s] = key}) = 1
                 /\ \E s \in {H1(key), H2(key)} :
                       cuckoo[s] = key /\ cuckooMove[s] = ReversibleMoves[j]

\* the tables are filled after two evictions: all keys have the same first slot
C31_Witness ==
    /\ Filled
    /\ \A j \in 1..MaxCuckooEntries : H1(initLoop.keys[j]) = H1(initLoop.keys[1])

\* the records made since the root record of set() or the last null move
SinceNull ==
    LET nulls == {i \in 1..Len(made) : made[i] = MOVE_NULL}
    IN  IF nulls = {} THEN Len(made)
        ELSE Len(made) - (CHOOSE i \in nulls : \A j \in nulls : j <= i)

\* the greatest of the distances i, i + step, ... that do not exceed end
LastStep(i, step, end) == i + step * ((end - i) \div step)

\* the scan of do_move on a scan that finds no earlier stop: it reads the
\* records at the distances 2, 4, ... up to end
ScanReach_one_more(p) ==
    LET end == RepetitionEnd(p) IN IF end >= 4 THEN LastStep(4, 2, end) + 2 ELSE 0

\* the deepest record the repetition scan of do_move reads, when no key matches
ScanReach(p) ==
    LET end == RepetitionEnd(p) IN IF end >= 4 THEN LastStep(4, 2, end) ELSE 0

\* the deepest record the chase offset of the n-move rule reads: stp->previous
\* with stp at the distances 0, 2, ... below end
ChaseReach(p) ==
    LET si == ThisSt(p)
        end == Min(si.rule50, si.pliesFromNull)
    IN  IF    p.var.nMoveRule > 0 /\ si.rule50 > 2 * p.var.nMoveRule - 1
           /\ p.var.chasingRule = "AXF_CHASING" /\ si.pliesFromNull >= 20
        THEN IF end > 2 THEN LastStep(2, 2, end - 1) + 1 ELSE 1
        ELSE 0

\* the deepest record the n-fold walk reads when it runs to its end: stp at
\* the distance i, and stp->previous while i + 1 <= end
NFoldReach(p) ==
    LET end == RepetitionEnd(p)
        last == LastStep(4, 2, end)
    IN  IF p.var.nFoldRule > 0 /\ end >= 4
        THEN IF last + 1 <= end THEN last + 1 ELSE last
        ELSE 0

\* the deepest record has_game_cycle reads: the distances 3, 5, ... up to end
CycleReach(p) ==
    LET end == RepetitionEnd(p)
    IN  IF end < 3 \/ p.var.nFoldValue # "VALUE_DRAW" \/ p.var.perpetualCheckIllegal
        THEN 0
        ELSE LastStep(3, 2, end)

\* the deepest record has_repeated reaches: one step per pass of
\* while (end-- >= 4)
RepeatedReach(p) ==
    LET end == RepetitionEnd(p) IN IF end >= 4 THEN end - 3 ELSE 0

\* chased() and is_immediate_game_end read st->previous when pliesFromNull > 0
PreviousReach(p) == IF ThisSt(p).pliesFromNull > 0 THEN 1 ELSE 0

\* C32: pliesFromNull never exceeds the number of records made since the root
\* or the last null move, and no backward walk of the chain reads a record
\* further back than pliesFromNull
C32_WalksStayInChain ==
    /\ ThisSt(Pos).pliesFromNull <= SinceNull
    /\ SinceNull < Len(st)
    /\ \A reach \in {ScanReach(Pos), ChaseReach(Pos), NFoldReach(Pos), CycleReach(Pos),
                     RepeatedReach(Pos), PreviousReach(Pos)} :
          reach <= ThisSt(Pos).pliesFromNull

\* after a null move and four moves the walks read the record the null move made
C32_Witness ==
    /\ MOVE_NULL \in {made[i] : i \in 1..Len(made)}
    /\ ThisSt(Pos).pliesFromNull = 4
    /\ ScanReach(Pos) = 4
    /\ NFoldReach(Pos) = 4

\* the colour whose committed piece the move m brings in: the piece stands
\* behind the back-rank square that m leaves
GateColour(m) ==
    IF m.type = "DROP" \/ ~Pos.var.commitGates THEN "NONE"
    ELSE IF rank_of(m.from) = 0 /\ has_committed_piece(Pos, "WHITE", file_of(m.from))
    THEN "WHITE"
    ELSE IF rank_of(m.from) = Pos.var.maxRank /\ has_committed_piece(Pos, "BLACK", file_of(m.from))
    THEN "BLACK"
    ELSE "NONE"

\* the move m brings the committed piece in, records it and is undone in full
GatedAndUndone(m) ==
    LET c == GateColour(m)
        pt == Pos.committedGates[c][file_of(m.from)]
    IN  /\ piece_on(After(m), m.from) = make_piece(c, pt)
        /\ ThisSt(After(m)).removedGatingType = pt
        /\ undo_move(After(m), m).board = board
        /\ undo_move(After(m), m).byTypeBB = byTypeBB
        /\ undo_move(After(m), m).committedGates = committedGates

\* C33: in a commit-gates variant, when a piece leaves a back-rank square
\* whose file holds a committed piece, do_move places the committed piece on
\* the vacated square and records its type in removedGatingType, for capturing
\* and non-capturing moves alike, and undo_move removes the placed piece from
\* the board and re-commits it to that file
C33_CommittedPieceGatedAndUndone ==
    \A m \in LegalMoves(Pos) : GateColour(m) # "NONE" => GatedAndUndone(m)

\* do_move of the pass m into the record newSt and undo_move leave the board
\* and the piece sets as they were
PassUndone(m, newSt) ==
    LET q == undo_move(do_move_into(Pos, m, newSt, gives_check(Pos, m)), m)
    IN  /\ q.board = board
        /\ q.byTypeBB = byTypeBB
        /\ q.byColorBB = byColorBB

\* C34: in a variant with surround capture or blast on move, do_move of a pass
\* followed by undo_move puts no piece on the board and leaves every square as
\* it was, whatever the supplied state record held before do_move: undo_move
\* restores only the by-catch that the matching do_move wrote
C34_PassUndoneWhateverTheRecord ==
    \A m \in PassMoves(Pos) : \A newSt \in SuppliedRecords : PassUndone(m, newSt)

\* the drop m grants a castling right: set_castling_right has run in do_move
GrantsCastlingRight(m) ==
    /\ m.type = "DROP"
    /\ ThisSt(After(m)).castlingRights \ ThisSt(Pos).castlingRights # {}

\* C35: when do_move of a drop grants a castling right, undo_move restores
\* the castling rights masks of the king and rook squares, the castling rook
\* square and the castling path to what they were before the drop
C35_UndoRestoresCastlingTables ==
    \A m \in LegalMoves(Pos) :
        GrantsCastlingRight(m) =>
            /\ undo_move(After(m), m).castlingRightsMask = castlingRightsMask
            /\ undo_move(After(m), m).castlingRookSquare = castlingRookSquare
            /\ undo_move(After(m), m).castlingPath = castlingPath

\* C36: after any sequence of set, do_move and undo_move, pawnCannotCheckZone
\* of each colour is what updatePawnCheckZone computes from the position as
\* it stands; in particular undo_move leaves it so
C36_PawnCheckZoneCurrent ==
    pawnCannotCheckZone = updatePawnCheckZone(Pos).pawnCannotCheckZone

\* the wall squares are on no colour bitboard, and pieces() is the pieces of
\* both colours and the wall squares
WallsApart ==
    /\ ThisSt(Pos).wallSquares \cap (piecesC(Pos, "WHITE") \cup piecesC(Pos, "BLACK")) = {}
    /\ pieces(Pos) = piecesC(Pos, "WHITE") \cup piecesC(Pos, "BLACK") \cup ThisSt(Pos).wallSquares

\* C37: in every position reached by set, do_move and undo_move the wall
\* squares are disjoint from both colour bitboards and pieces() is the white
\* pieces, the black pieces and the wall squares; under duck walling a walling
\* move removes every previous wall square and leaves exactly the new one
C37_WallsApartAndOneDuck ==
    /\ WallsApart
    /\ \A m \in WallingMoves(Pos, LegalMoves(Pos)) :
          Pos.var.wallingRule = "DUCK" =>
              ThisSt(After(m)).wallSquares = {gating_square(m)}

\* a duck stands on the board and a walling move puts it on another square
C37_Witness ==
    /\ Pos.var.wallingRule = "DUCK"
    /\ made # <<>>
    /\ ThisSt(Pos).wallSquares = {gating_square(made[Len(made)])}
    /\ Pos.st[Len(Pos.st) - 1].wallSquares # {}
    /\ Pos.st[Len(Pos.st) - 1].wallSquares # ThisSt(Pos).wallSquares

\* the en passant file keys that a key holds
EpPart(k) == {a \in k : a[1] = "enpassant"}

\* the squares that the move m passed over
PassedOver(m) == IF m.type = "NORMAL" THEN between_bb(m.from, m.to) ELSE {}

====
